---------------------------- MODULE Spec2Model ----------------------------
(***************************************************************************)
(* A model of the tennis-serve motion analysis engine: landmark trajectory *)
(* extraction, phase segmentation (anchor based with proportional          *)
(* fallback), the kinematic scorers, the aggregator and the request        *)
(* pipeline (analyze_video -> analyze_motion -> tiered evaluation).        *)
(*                                                                         *)
(* Numbers.  Image coordinates are integers in thousandths (0.5 is 500).   *)
(* Category scores are integers in thousandths of a point (10.0 is 10000); *)
(* a mean that is not a whole number of thousandths is rounded down.       *)
(* Weights and ratios are integers in hundredths (0.15 is 15).  A duration *)
(* is the integer numerator of the code's  frames / 30  quotient, and a    *)
(* frame's timestamp is its index.  calculate_overall_score returns a      *)
(* whole number of 1e-5 points; the overall score of analyze_motion is the *)
(* exact fraction <<num, den>> of thousandths.  An angle is the pair       *)
(* <<dot, nn>> with cosine dot / sqrt(nn), compared exactly against the    *)
(* band limits.                                                            *)
(*                                                                         *)
(* Arithmetic is that of the real numbers.  The code computes in binary    *)
(* floating point, so a quantity that meets a band limit exactly may fall  *)
(* on either side of it there; round(x, 2) on an exact tie is modelled as  *)
(* a choice (tie_up).                                                      *)
(*                                                                         *)
(* A landmark sample is the tuple <<x, y>>; the tuple <<x>> is a sample    *)
(* dictionary that lacks its 'y' key; a hole (Python None) is <<>>.  An    *)
(* issue or recommendation message is an ASCII tag; a raised exception is  *)
(* a record with a  raised  field.                                         *)
(***************************************************************************)
EXTENDS Integers, Sequences, FiniteSets, TLC

VARIABLES
    pc,             \* position: "idle", or the operation that has returned
    pose_results,   \* the Pose Sequence handed to the operation
    landmark_name,  \* argument of _extract_landmark_trajectory
    trajectory,     \* its return value
    total_frames,   \* argument of _create_fallback_phases
    serve_phases,   \* list of ServePhase returned by the segmenter
    path,           \* branch the segmenter / pipeline took
    scores,         \* category name -> Category Score record
    result,         \* return value (or raised exception) of the operation
    analyzer,       \* instance state of the MotionAnalyzer shared by all runs
    runs,           \* run id -> local variables of an analysis in progress
    capture         \* cv2.VideoCapture and the loop locals of process_video

vars == <<pc, pose_results, landmark_name, trajectory, total_frames,
          serve_phases, path, scores, result,
         analyzer, runs, capture>>

-----------------------------------------------------------------------------
(* Bounds of the model                                                     *)

\* longest Pose Sequence enumerated frame by frame
MaxSmallLen == 2
\* longest generated (dummy-shaped) Pose Sequence
MaxFrames == 14
\* most leading frames without a pose in a generated Pose Sequence
MaxLeadingHoles == 2
\* largest argument handed to _create_fallback_phases on its own
MaxTotalFrames == 160
\* category scores handed to calculate_overall_score: 0, 10/ScoreSteps, .. 10
ScoreSteps == 4
\* largest reading of the clock, int(time.time() * 1000)
MaxClock == 1
\* length of the Pose Sequences handed to the scorers on their own
ScorerFrames == 4
\* length of the Pose Sequences handed to analyze_knee_movement on its own
MaxKneeFrames == 4
\* length of the Trajectories handed to the smoothness computations
MaxTrajectoryLen == 4
\* most frames a video handed to process_video holds
MaxVideoFrames == 10
\* largest stride skip_frames handed to process_video
MaxSkipFrames == 3

(* Program constants                                                       *)

\* the usability gate of the segmenter and of analyze_serve_motion
MinValidSamples == 10
\* fewest frames with a pose analyze_serve_motion goes on to score
MinDetectedFrames == 10
\* frames per second assumed by the segmenter
DefaultFps == 30
\* length of the dummy Pose Sequence of main()
DummyFrames == 150
\* the top of the score scale, 10.0, in thousandths
ScoreMax == 10000
\* process_video reports its progress every this many sampled frames
ProgressEvery == 10

-----------------------------------------------------------------------------
(* Helpers                                                                 *)

None == <<>>

Abs(a) == IF a < 0 THEN -a ELSE a

Max2(a, b) == IF a >= b THEN a ELSE b

Min2(a, b) == IF a <= b THEN a ELSE b

RECURSIVE SumRange(_, _, _)
SumRange(s, lo, hi) ==
    IF lo > hi THEN 0
    ELSE IF lo = hi THEN s[lo]
    ELSE LET mid == (lo + hi) \div 2
         IN SumRange(s, lo, mid) + SumRange(s, mid + 1, hi)

\* sum(s)
SumSeq(s) == SumRange(s, 1, Len(s))

\* np.argmin / list.index(min(..)): 0-based position of the first minimum
ArgMin(s) ==
    LET m == CHOOSE v \in {s[i] : i \in 1..Len(s)} :
                 \A i \in 1..Len(s) : v <= s[i]
    IN (CHOOSE i \in 1..Len(s) :
           s[i] = m /\ \A j \in 1..(i - 1) : s[j] # m) - 1

-----------------------------------------------------------------------------
(* MotionAnalyzer.__init__                                                 *)

PhaseNames == <<"preparation", "ball_toss", "trophy_position",
                "acceleration", "contact", "follow_through">>

\* phase_lengths of _create_fallback_phases, in hundredths
PhaseLengths == <<15, 20, 25, 15, 5, 20>>

ServePhase(name, start_frame, end_frame, duration, key_events) ==
    [name |-> name, start_frame |-> start_frame, end_frame |-> end_frame,
     duration |-> duration, key_events |-> key_events]

-----------------------------------------------------------------------------
(* _extract_landmark_trajectory                                            *)

\* one position of the trajectory: the sample, or None
TrajectoryEntry(frame, name) ==
    IF frame.has_pose /\ name \in DOMAIN frame.landmarks
    THEN frame.landmarks[name]
    ELSE None

ExtractDropsHoles(pose, name) ==
    LET all == [i \in 1..Len(pose) |-> TrajectoryEntry(pose[i], name)]
        NotHole(p) == p # None
    IN SelectSeq(all, NotHole)

ExtractLandmarkTrajectory(pose, name) ==
    [i \in 1..Len(pose) |-> TrajectoryEntry(pose[i], name)]

\* [t for t in trajectory if t is not None]
ValidPoints(traj) ==
    LET NotHole(p) == p # None
    IN SelectSeq(traj, NotHole)

-----------------------------------------------------------------------------
(* _create_fallback_phases                                                 *)

\* every phase, the last one too, gets int(total_frames * ratio)
FallbackLengthNoRemainder(n, i, current_frame) ==
    (n * PhaseLengths[i]) \div 100

\* int(total_frames * ratio); the last phase takes what is left
FallbackLength(n, i, current_frame) ==
    IF i = Len(PhaseNames) THEN n - current_frame
    ELSE (n * PhaseLengths[i]) \div 100

RECURSIVE FallbackFrom(_, _, _)
FallbackFrom(n, i, current_frame) ==
    IF i > Len(PhaseNames) THEN <<>>
    ELSE LET phase_length == FallbackLength(n, i, current_frame)
         IN <<ServePhase(PhaseNames[i], current_frame,
                         current_frame + phase_length - 1,
                         phase_length, <<>>)>>
            \o FallbackFrom(n, i + 1, current_frame + phase_length)

\* the loop stops one phase early
CreateFallbackPhasesShort(n) == SubSeq(FallbackFrom(n, 1, 0), 1, 5)

CreateFallbackPhases(n) == FallbackFrom(n, 1, 0)

-----------------------------------------------------------------------------
(* identify_serve_phases                                                   *)

\* point['y'] raises KeyError on a sample without 'y'
HasY(point) == Len(point) >= 2

PrimaryRaises(lw, rw) ==
    \/ \E i \in 1..Len(lw) : lw[i] # None /\ ~HasY(lw[i])
    \/ \E i \in 1..Len(rw) : rw[i] # None /\ ~HasY(rw[i])

Heights(traj) ==
    LET v == ValidPoints(traj)
    IN [i \in 1..Len(v) |-> v[i][2]]

TossPeakFrame(lw, n) ==
    IF Heights(lw) # <<>> THEN ArgMin(Heights(lw)) ELSE n \div 3

ContactFrame(rw, n) ==
    IF Heights(rw) # <<>> THEN ArgMin(Heights(rw)) ELSE (n * 2) \div 3

PrimaryPhases(toss_peak_frame, contact_frame, n) ==
    LET preparation_end     == Max2(1, toss_peak_frame - 20)
        ball_toss_end       == toss_peak_frame + 5
        trophy_position_end == contact_frame - 10
        acceleration_end    == contact_frame + 2
        contact_end         == contact_frame + 5
    IN << ServePhase("preparation", 0, preparation_end,
                     preparation_end - 0,
                     <<"stance_setup", "initial_position">>),
          ServePhase("ball_toss", preparation_end, ball_toss_end,
                     ball_toss_end - preparation_end,
                     <<"toss_initiation", "ball_release">>),
          ServePhase("trophy_position", ball_toss_end, trophy_position_end,
                     trophy_position_end - ball_toss_end,
                     <<"trophy_formation", "weight_transfer">>),
          ServePhase("acceleration", trophy_position_end, acceleration_end,
                     acceleration_end - trophy_position_end,
                     <<"racket_acceleration", "kinetic_chain">>),
          ServePhase("contact", acceleration_end, contact_end,
                     contact_end - acceleration_end,
                     <<"ball_contact", "maximum_reach">>),
          ServePhase("follow_through", contact_end, n - 1,
                     n - 1 - contact_end,
                     <<"deceleration", "landing">>) >>

\* the branches without the 10-sample gate
SegmenterPathNoGate(pose) ==
    LET rw == ExtractLandmarkTrajectory(pose, "right_wrist")
        lw == ExtractLandmarkTrajectory(pose, "left_wrist")
    IN IF rw = <<>> \/ lw = <<>> THEN "fallback_empty"
       ELSE IF ValidPoints(rw) = <<>> \/ ValidPoints(lw) = <<>>
            THEN "fallback_gate"
       ELSE IF PrimaryRaises(lw, rw) THEN "fallback_except"
       ELSE "primary"

SegmenterPathGateAbove(pose) ==
    LET rw == ExtractLandmarkTrajectory(pose, "right_wrist")
        lw == ExtractLandmarkTrajectory(pose, "left_wrist")
    IN IF rw = <<>> \/ lw = <<>> THEN "fallback_empty"
       ELSE IF Len(ValidPoints(rw)) <= MinValidSamples
               \/ Len(ValidPoints(lw)) <= MinValidSamples
            THEN "fallback_gate"
       ELSE IF PrimaryRaises(lw, rw) THEN "fallback_except"
       ELSE "primary"

\* which branch identify_serve_phases returns from
SegmenterPath(pose) ==
    LET rw == ExtractLandmarkTrajectory(pose, "right_wrist")
        lw == ExtractLandmarkTrajectory(pose, "left_wrist")
    IN IF rw = <<>> \/ lw = <<>> THEN "fallback_empty"
       ELSE IF Len(ValidPoints(rw)) < MinValidSamples
               \/ Len(ValidPoints(lw)) < MinValidSamples
            THEN "fallback_gate"
       ELSE IF PrimaryRaises(lw, rw) THEN "fallback_except"
       ELSE "primary"

IdentifyServePhases(pose) ==
    LET n  == Len(pose)
        rw == ExtractLandmarkTrajectory(pose, "right_wrist")
        lw == ExtractLandmarkTrajectory(pose, "left_wrist")
    IN IF SegmenterPath(pose) = "primary"
       THEN PrimaryPhases(TossPeakFrame(lw, n), ContactFrame(rw, n), n)
       ELSE CreateFallbackPhases(n)

-----------------------------------------------------------------------------
(* Angles and exact comparisons                                            *)
(*                                                                         *)
(* An angle in [0, 180] degrees is kept as the pair <<dot, nn>> with       *)
(* cos(angle) = dot / sqrt(nn), nn > 0: the quantities arccos and atan2    *)
(* are applied to.  Band tests compare cos^2 against the threshold's       *)
(* cos^2, as the real numbers compare.                                     *)

\* a / b < c / d for a, c >= 0 and b, d > 0, without forming a product
RECURSIVE FracLess(_, _, _, _)
FracLess(a, b, c, d) ==
    LET qa == a \div b
        qc == c \div d
        ra == a % b
        rc == c % d
    IN IF qa # qc THEN qa < qc
       ELSE IF rc = 0 THEN FALSE
       ELSE IF ra = 0 THEN TRUE
       ELSE FracLess(d, rc, b, ra)

\* 10^9 * cos^2 of 1, 2, .. 89 degrees, rounded; exact at 30, 45 and 60
CosSqTable ==
    << 999695414, 998782025, 997260948, 995134034, 992403877, 989073800,
       985147863, 980630848, 975528258, 969846310, 963591927, 956772729,
       949397023, 941473796, 933012702, 924024048, 914518786, 904508497,
       894005377, 883022222, 871572413, 859669900, 847329185, 834565303,
       821393805, 807830738, 793892626, 779596452, 764959632, 750000000,
       734735781, 719185573, 703368322, 687303297, 671010072, 654508497,
       637818678, 620960948, 603955845, 586824089, 569586550, 552264232,
       534878237, 517449748, 500000000, 482550252, 465121763, 447735768,
       430413450, 413175911, 396044155, 379039052, 362181322, 345491503,
       328989928, 312696703, 296631678, 280814427, 265264219, 250000000,
       235040368, 220403548, 206107374, 192169262, 178606195, 165434697,
       152670815, 140330100, 128427587, 116977778, 105994623, 95491503,
       85481214, 75975952, 66987298, 58526204, 50602977, 43227271, 36408073,
       30153690, 24471742, 19369152, 14852137, 10926200, 7596123, 4865966,
       2739052, 1217975, 304586 >>

\* angle >= theta degrees, theta in 1..180
AngleAtLeast(angle, theta) ==
    LET d2 == angle[1] * angle[1]
    IN IF theta = 180 THEN angle[1] < 0 /\ d2 = angle[2]
       ELSE IF theta = 90 THEN angle[1] <= 0
       ELSE IF theta < 90
            THEN angle[1] <= 0
                 \/ ~FracLess(CosSqTable[theta], 1000000000, d2, angle[2])
       ELSE angle[1] < 0
            /\ ~FracLess(d2, angle[2], CosSqTable[180 - theta], 1000000000)

\* angle <= theta degrees, theta in 0..179
AngleAtMost(angle, theta) ==
    LET d2 == angle[1] * angle[1]
    IN IF theta = 0 THEN angle[1] > 0 /\ d2 = angle[2]
       ELSE IF theta = 90 THEN angle[1] >= 0
       ELSE IF theta < 90
            THEN angle[1] > 0
                 /\ ~FracLess(d2, angle[2], CosSqTable[theta], 1000000000)
       ELSE angle[1] >= 0
            \/ ~FracLess(CosSqTable[180 - theta], 1000000000, d2, angle[2])

\* angle > theta degrees
AngleGreater(angle, theta) == ~AngleAtMost(angle, theta)

\* angle < theta degrees
AngleLess(angle, theta) == ~AngleAtLeast(angle, theta)

\* the angle in whole degrees, rounded down
Degrees(angle) == Cardinality({theta \in 1..180 : AngleAtLeast(angle, theta)})

\* a < b for two angles
AngleBelow(a, b) ==
    IF a[1] >= 0 /\ b[1] < 0 THEN TRUE
    ELSE IF a[1] < 0 /\ b[1] >= 0 THEN FALSE
    ELSE IF a[1] >= 0
         THEN FracLess(b[1] * b[1], b[2], a[1] * a[1], a[2])
         ELSE FracLess(a[1] * a[1], a[2], b[1] * b[1], b[2])

\* the angles 0 and 180 degrees
Angle0 == <<1, 1>>

Angle180 == <<-1, 1>>

\* result.get('landmarks', {}).get(name)
Landmark(frame, name) ==
    IF name \in DOMAIN frame.landmarks THEN frame.landmarks[name] ELSE None

\* norm < 1e-6 on squared integer lengths.  In thousandths a squared length
\* under 1e-12 is 0; in units of 1e-7 it is under 10 * 10
MinNormSqThousandths == 1

MinNormSqFine == 100

\* _calculate_joint_angle with only the first limb's length checked
CalculateJointAngleOneLimb(min_norm_sq, point1, point2, point3) ==
    IF point1 = None \/ point2 = None \/ point3 = None THEN None
    ELSE LET v1 == <<point1[1] - point2[1], point1[2] - point2[2]>>
             v2 == <<point3[1] - point2[1], point3[2] - point2[2]>>
             n1 == v1[1] * v1[1] + v1[2] * v1[2]
             n2 == v2[1] * v2[1] + v2[2] * v2[2]
         IN IF n1 < min_norm_sq THEN None
            ELSE <<v1[1] * v2[1] + v1[2] * v2[2], n1 * n2>>

\* _calculate_joint_angle on coordinates whose unit makes 1e-6 squared equal
\* to min_norm_sq: the angle at point2, None when a point is missing or a
\* limb is shorter than 1e-6
CalculateJointAngleIn(min_norm_sq, point1, point2, point3) ==
    IF point1 = None \/ point2 = None \/ point3 = None THEN None
    ELSE LET v1 == <<point1[1] - point2[1], point1[2] - point2[2]>>
             v2 == <<point3[1] - point2[1], point3[2] - point2[2]>>
             n1 == v1[1] * v1[1] + v1[2] * v1[2]
             n2 == v2[1] * v2[1] + v2[2] * v2[2]
         IN IF n1 < min_norm_sq \/ n2 < min_norm_sq THEN None
            ELSE <<v1[1] * v2[1] + v1[2] * v2[2], n1 * n2>>

\* _calculate_joint_angle on coordinates in thousandths
CalculateJointAngle(point1, point2, point3) ==
    CalculateJointAngleIn(MinNormSqThousandths, point1, point2, point3)

\* _calculate_rotation_angle: abs(atan2(dy, dx)), the angle between
\* (dx, dy) and the x axis; atan2(0, 0) is 0
CalculateRotationAngle(left_point, right_point) ==
    LET dx == right_point[1] - left_point[1]
        dy == right_point[2] - left_point[2]
    IN IF dx = 0 /\ dy = 0 THEN Angle0
       ELSE <<dx, dx * dx + dy * dy>>

\* 0-based position of the first smallest angle of a list with holes
\* (min(valid_angles), then knee_angles.index(..)); the list has a valid entry
FirstMinAngleIndex(angles) ==
    (CHOOSE i \in 1..Len(angles) :
        /\ angles[i] # None
        /\ \A j \in 1..Len(angles) :
              angles[j] # None =>
                  /\ ~AngleBelow(angles[j], angles[i])
                  /\ (j < i => AngleBelow(angles[i], angles[j]))) - 1

\* 1-based position of a largest angle of a non-empty list without holes
MaxAngleIndex(angles) ==
    CHOOSE i \in 1..Len(angles) :
        \A j \in 1..Len(angles) : ~AngleBelow(angles[i], angles[j])

\* next((p for p in serve_phases if p.name == name), None) is not None
HasPhase(phases, name) == \E k \in 1..Len(phases) : phases[k].name = name

\* next((p for p in serve_phases if p.name == name), None), when there is one
PhaseNamed(phases, name) ==
    phases[CHOOSE k \in 1..Len(phases) :
               /\ phases[k].name = name
               /\ \A j \in 1..(k - 1) : phases[j].name # name]

-----------------------------------------------------------------------------
(* analyze_knee_movement                                                   *)
(* Issues and recommendations are named by tags, one per message.          *)

\* a frame without a usable knee counted as a fully bent one
KneeAnglesHolesAsZero(pose) ==
    [i \in 1..Len(pose) |->
        LET angle == IF pose[i].has_pose
                     THEN CalculateJointAngle(Landmark(pose[i], "right_hip"),
                                              Landmark(pose[i], "right_knee"),
                                              Landmark(pose[i], "right_ankle"))
                     ELSE None
        IN IF angle = None THEN Angle0 ELSE angle]

\* knee_angles: right hip - right knee - right ankle, None without a pose
KneeAngles(pose) ==
    [i \in 1..Len(pose) |->
        IF pose[i].has_pose
        THEN CalculateJointAngle(Landmark(pose[i], "right_hip"),
                                 Landmark(pose[i], "right_knee"),
                                 Landmark(pose[i], "right_ankle"))
        ELSE None]

\* <<depth penalty in thousandths, issue>> of the depth bands
KneeDepthBand(max_bend_angle) ==
    IF AngleGreater(max_bend_angle, 170) THEN <<6000, <<"knee_much_too_shallow">> >>
    ELSE IF AngleGreater(max_bend_angle, 160) THEN <<4500, <<"knee_too_shallow">> >>
    ELSE IF AngleGreater(max_bend_angle, 150) THEN <<2500, <<"knee_rather_shallow">> >>
    ELSE IF AngleGreater(max_bend_angle, 145) THEN <<1000, <<"knee_slightly_shallow">> >>
    ELSE IF AngleLess(max_bend_angle, 115) THEN <<6000, <<"knee_much_too_deep">> >>
    ELSE IF AngleLess(max_bend_angle, 125) THEN <<3500, <<"knee_too_deep">> >>
    ELSE IF AngleLess(max_bend_angle, 135) THEN <<1500, <<"knee_rather_deep">> >>
    ELSE <<0, <<>> >>

\* _get_knee_recommendations
GetKneeRecommendations(max_bend_angle, timing_issues, depth_issues) ==
    (IF AngleGreater(max_bend_angle, 160) THEN <<"bend_knee_deeper">>
     ELSE IF AngleLess(max_bend_angle, 120) THEN <<"bend_knee_less">>
     ELSE <<>>)
    \o (IF timing_issues = <<"knee_bend_early">> THEN <<"practice_bend_with_toss">>
        ELSE IF timing_issues = <<"knee_bend_late">> THEN <<"bend_knee_earlier">>
        ELSE <<>>)

AnalyzeKneeMovement(pose, phases) ==
    LET knee_angles    == KneeAngles(pose)
        has_valid      == \E i \in 1..Len(knee_angles) : knee_angles[i] # None
        max_bend_frame == IF has_valid THEN FirstMinAngleIndex(knee_angles) ELSE 0
        max_bend_angle == IF has_valid THEN knee_angles[max_bend_frame + 1]
                          ELSE Angle180
        timing_issues  ==
            IF ~HasPhase(phases, "trophy_position") THEN <<>>
            ELSE IF max_bend_frame < PhaseNamed(phases, "trophy_position").start_frame
                 THEN <<"knee_bend_early">>
            ELSE IF max_bend_frame > PhaseNamed(phases, "trophy_position").end_frame
                 THEN <<"knee_bend_late">>
            ELSE <<>>
        timing_score   == IF timing_issues = <<>> THEN 10000 ELSE 10000 - 2000
        band           == KneeDepthBand(max_bend_angle)
        depth_score    == 10000 - band[1]
    IN [max_bend_angle  |-> max_bend_angle,
        max_bend_frame  |-> max_bend_frame,
        timing_score    |-> timing_score,
        depth_score     |-> depth_score,
        overall_score   |-> (timing_score + depth_score) \div 2,
        issues          |-> timing_issues \o band[2],
        recommendations |-> GetKneeRecommendations(max_bend_angle, timing_issues,
                                                   band[2])]

-----------------------------------------------------------------------------
(* analyze_body_rotation                                                   *)

\* shoulder_rotations / hip_rotations: one angle per frame, None where the
\* frame has no pose or lacks either landmark
Rotations(pose, left_name, right_name) ==
    [i \in 1..Len(pose) |->
        IF /\ pose[i].has_pose
           /\ Landmark(pose[i], left_name) # None
           /\ Landmark(pose[i], right_name) # None
        THEN CalculateRotationAngle(Landmark(pose[i], left_name),
                                    Landmark(pose[i], right_name))
        ELSE None]

\* max(valid_rotations) if valid_rotations else 0
MaxRotation(rotations) ==
    LET valid == ValidPoints(rotations)
    IN IF valid = <<>> THEN Angle0 ELSE valid[MaxAngleIndex(valid)]

\* the shoulder bands with the limits and penalties of the earlier criteria
ShoulderBandEarlier(max_shoulder_rotation) ==
    IF AngleLess(max_shoulder_rotation, 70) THEN <<4000, <<"shoulder_rotation_much_too_small">> >>
    ELSE IF AngleLess(max_shoulder_rotation, 80) THEN <<2500, <<"shoulder_rotation_too_small">> >>
    ELSE IF AngleLess(max_shoulder_rotation, 85) THEN <<1000, <<"shoulder_rotation_rather_small">> >>
    ELSE IF AngleGreater(max_shoulder_rotation, 105) THEN <<3000, <<"shoulder_rotation_excessive">> >>
    ELSE IF AngleGreater(max_shoulder_rotation, 95) THEN <<1500, <<"shoulder_rotation_rather_excessive">> >>
    ELSE <<0, <<>> >>

\* <<penalty, issue>> of the shoulder bands
ShoulderBand(max_shoulder_rotation) ==
    IF AngleLess(max_shoulder_rotation, 75) THEN <<6000, <<"shoulder_rotation_much_too_small">> >>
    ELSE IF AngleLess(max_shoulder_rotation, 83) THEN <<4000, <<"shoulder_rotation_too_small">> >>
    ELSE IF AngleLess(max_shoulder_rotation, 88) THEN <<2000, <<"shoulder_rotation_rather_small">> >>
    ELSE IF AngleGreater(max_shoulder_rotation, 98) THEN <<5000, <<"shoulder_rotation_excessive">> >>
    ELSE IF AngleGreater(max_shoulder_rotation, 92) THEN <<2500, <<"shoulder_rotation_rather_excessive">> >>
    ELSE <<0, <<>> >>

\* <<penalty, issue>> of the hip bands
HipBand(max_hip_rotation) ==
    IF AngleLess(max_hip_rotation, 30) THEN <<6000, <<"hip_rotation_much_too_small">> >>
    ELSE IF AngleLess(max_hip_rotation, 40) THEN <<4000, <<"hip_rotation_too_small">> >>
    ELSE IF AngleLess(max_hip_rotation, 45) THEN <<2000, <<"hip_rotation_rather_small">> >>
    ELSE IF AngleGreater(max_hip_rotation, 65) THEN <<5000, <<"hip_rotation_excessive">> >>
    ELSE IF AngleGreater(max_hip_rotation, 55) THEN <<2500, <<"hip_rotation_rather_excessive">> >>
    ELSE <<0, <<>> >>

\* _get_rotation_recommendations
GetRotationRecommendations(shoulder_rotation, hip_rotation, issues) ==
    (IF AngleLess(shoulder_rotation, 60) THEN <<"rotate_shoulders_more">>
     ELSE IF AngleGreater(shoulder_rotation, 120) THEN <<"rotate_shoulders_less">>
     ELSE <<>>)
    \o (IF AngleLess(hip_rotation, 30) THEN <<"rotate_hips_more">> ELSE <<>>)

AnalyzeBodyRotation(pose, phases) ==
    LET max_shoulder_rotation ==
            MaxRotation(Rotations(pose, "left_shoulder", "right_shoulder"))
        max_hip_rotation == MaxRotation(Rotations(pose, "left_hip", "right_hip"))
        sband          == ShoulderBand(max_shoulder_rotation)
        hband          == HipBand(max_hip_rotation)
        shoulder_score == 10000 - sband[1]
        hip_score      == 10000 - hband[1]
        issues         == sband[2] \o hband[2]
    IN [max_shoulder_rotation |-> max_shoulder_rotation,
        max_hip_rotation      |-> max_hip_rotation,
        shoulder_score        |-> shoulder_score,
        hip_score             |-> hip_score,
        overall_score         |-> (shoulder_score + hip_score) \div 2,
        issues                |-> issues,
        recommendations       |-> GetRotationRecommendations(
                                      max_shoulder_rotation, max_hip_rotation, issues)]

-----------------------------------------------------------------------------
(* _calculate_trajectory_smoothness (coefficient of variation of speed)    *)

RECURSIVE ISqrtBetween(_, _, _)
ISqrtBetween(n, lo, hi) ==
    IF lo >= hi THEN lo
    ELSE LET mid == (lo + hi + 1) \div 2
         IN IF mid * mid <= n THEN ISqrtBetween(n, mid, hi)
            ELSE ISqrtBetween(n, lo, mid - 1)

\* floor(sqrt(n)), n >= 0
ISqrt(n) == ISqrtBetween(n, 0, 46340)

\* <<q, r>> with a * b = q * c + r and 0 <= r < c, without forming a * b
RECURSIVE MulDivQR(_, _, _)
MulDivQR(a, b, c) ==
    IF b = 0 THEN <<0, 0>>
    ELSE LET h   == MulDivQR(a, b \div 2, c)
             add == IF b % 2 = 1 THEN a ELSE 0
             r   == 2 * h[2] + (add % c)
         IN <<2 * h[1] + (add \div c) + (r \div c), r % c>>

\* floor(a * b / c)
MulDiv(a, b, c) == MulDivQR(a, b, c)[1]

\* math.sqrt(dx*dx + dy*dy) between consecutive points, in units of 10^-5
Velocities(points) ==
    [i \in 1..(Len(points) - 1) |->
        LET dx == points[i + 1][1] - points[i][1]
            dy == points[i + 1][2] - points[i][2]
        IN ISqrt(10000 * (dx * dx + dy * dy))]

\* min(std / mean, 1.0) of a list of non-negative numbers with a positive sum,
\* in thousandths, rounded down (to within two thousandths)
CoefficientOfVariation(values) ==
    LET k   == Len(values)
        S   == SumSeq(values)
        r   == [i \in 1..k |->
                   Min2(MulDiv(Abs(k * values[i] - S), 1000, S), 46340)]
        msq == SumSeq([i \in 1..k |-> (r[i] * r[i]) \div k])
               + SumSeq([i \in 1..k |-> (r[i] * r[i]) % k]) \div k
    IN IF msq >= 1000000 THEN 1000 ELSE ISqrt(msq)

\* the smoothness in thousandths: 0.0 with fewer than three valid points, 1.0
\* when nothing moves, else 1 - min(std / mean, 1) of the speeds
CalculateTrajectorySmoothness(traj) ==
    IF Len(traj) < 3 THEN 0
    ELSE LET valid_points == ValidPoints(traj)
         IN IF Len(valid_points) < 3 THEN 0
            ELSE IF SumSeq(Velocities(valid_points)) = 0 THEN 1000
            ELSE 1000 - CoefficientOfVariation(Velocities(valid_points))

-----------------------------------------------------------------------------
(* analyze_elbow_position                                                  *)

\* the frame indices of range(start_frame, end_frame + 1) at which both
\* trajectories hold a sample (phases start at a frame >= 0)
FramesWithBoth(phase, a, b) ==
    { f \in phase.start_frame .. phase.end_frame :
        /\ f >= 0
        /\ f < Len(a) /\ f < Len(b)
        /\ a[f + 1] # None /\ b[f + 1] # None }

RECURSIVE SumOver(_, _, _)
SumOver(frames, traj, coord) ==
    IF frames = {} THEN 0
    ELSE LET f == CHOOSE g \in frames : TRUE
         IN traj[f + 1][coord] + SumOver(frames \ {f}, traj, coord)

\* the height bands with the ideal band open at both ends
ElbowHeightBandOpen(num, den) ==
    IF num < -60 * den THEN <<6000, <<"elbow_much_too_low">> >>
    ELSE IF num < -30 * den THEN <<4000, <<"elbow_too_low">> >>
    ELSE IF num <= 0 THEN <<1500, <<"elbow_rather_low">> >>
    ELSE IF num > 100 * den THEN <<6000, <<"elbow_much_too_high">> >>
    ELSE IF num > 60 * den THEN <<4000, <<"elbow_too_high">> >>
    ELSE IF num >= 30 * den THEN <<2000, <<"elbow_rather_high">> >>
    ELSE <<0, <<>> >>

\* <<penalty, issue>> of the height bands; the difference is num / den
\* thousandths
ElbowHeightBand(num, den) ==
    IF num < -60 * den THEN <<6000, <<"elbow_much_too_low">> >>
    ELSE IF num < -30 * den THEN <<4000, <<"elbow_too_low">> >>
    ELSE IF num < 0 THEN <<1500, <<"elbow_rather_low">> >>
    ELSE IF num > 100 * den THEN <<6000, <<"elbow_much_too_high">> >>
    ELSE IF num > 60 * den THEN <<4000, <<"elbow_too_high">> >>
    ELSE IF num > 30 * den THEN <<2000, <<"elbow_rather_high">> >>
    ELSE <<0, <<>> >>

\* <<penalty, issue>> of the stability bands
ElbowStabilityBand(trajectory_smoothness) ==
    IF trajectory_smoothness < 600 THEN <<4000, <<"elbow_very_unstable">> >>
    ELSE IF trajectory_smoothness < 700 THEN <<2500, <<"elbow_unstable">> >>
    ELSE IF trajectory_smoothness < 800 THEN <<1000, <<"elbow_rather_unstable">> >>
    ELSE <<0, <<>> >>

\* _get_elbow_recommendations
GetElbowRecommendations(num, den, issues) ==
    (IF num < -50 * den THEN <<"keep_elbow_higher">>
     ELSE IF num > 100 * den THEN <<"lower_elbow">>
     ELSE <<>>)
    \o (IF \E k \in 1..Len(issues) : issues[k] = "elbow_unstable"
        THEN <<"stabilise_elbow_path">> ELSE <<>>)

AnalyzeElbowPosition(pose, phases) ==
    LET right_elbow_trajectory    == ExtractLandmarkTrajectory(pose, "right_elbow")
        right_shoulder_trajectory == ExtractLandmarkTrajectory(pose, "right_shoulder")
        frames == IF /\ HasPhase(phases, "trophy_position")
                     /\ right_elbow_trajectory # <<>>
                     /\ right_shoulder_trajectory # <<>>
                  THEN FramesWithBoth(PhaseNamed(phases, "trophy_position"),
                                      right_elbow_trajectory,
                                      right_shoulder_trajectory)
                  ELSE {}
        den    == IF frames = {} THEN 1 ELSE Cardinality(frames)
        elbow_sum == IF frames = {} THEN 500
                     ELSE SumOver(frames, right_elbow_trajectory, 2)
        num    == IF frames = {} THEN 0
                  ELSE SumOver(frames, right_shoulder_trajectory, 2) - elbow_sum
        hband  == ElbowHeightBand(num, den)
        sband  == IF right_elbow_trajectory # <<>>
                  THEN ElbowStabilityBand(
                           CalculateTrajectorySmoothness(right_elbow_trajectory))
                  ELSE <<0, <<>> >>
        height_score    == 10000 - hband[1]
        stability_score == 10000 - sband[1]
        issues          == hband[2] \o sband[2]
    IN [average_height             |-> <<elbow_sum, den>>,
        shoulder_relative_position |-> <<num, den>>,
        height_score               |-> height_score,
        stability_score            |-> stability_score,
        overall_score              |-> (height_score + stability_score) \div 2,
        issues                     |-> issues,
        recommendations            |-> GetElbowRecommendations(num, den, issues)]

-----------------------------------------------------------------------------
(* analyze_toss_trajectory                                                 *)

\* the early returns of analyze_toss_trajectory
TossNotDetected(issue, recommendation) ==
    [max_height        |-> 0,
     forward_distance  |-> 0,
     consistency_score |-> 0,
     overall_score     |-> 0,
     issues            |-> <<issue>>,
     recommendations   |-> <<recommendation>>]

\* the left-wrist samples of the ball_toss phase, in frame order; every
\* sample when there is no such phase
TossTrajectory(left_wrist_trajectory, phases) ==
    IF HasPhase(phases, "ball_toss")
    THEN LET toss_phase == PhaseNamed(phases, "ball_toss")
             InPhase(i) == /\ i - 1 >= toss_phase.start_frame
                           /\ i - 1 <= toss_phase.end_frame
             picked == SelectSeq([i \in 1..Len(left_wrist_trajectory) |->
                                     IF InPhase(i) THEN left_wrist_trajectory[i]
                                     ELSE None],
                                 LAMBDA q : q # None)
         IN picked
    ELSE ValidPoints(left_wrist_trajectory)

\* <<penalty, issue>> of the height bands, max_height_normalized in thousandths
TossHeightBand(max_height_normalized) ==
    IF max_height_normalized < 200 THEN <<4000, <<"toss_much_too_low">> >>
    ELSE IF max_height_normalized < 300 THEN <<3000, <<"toss_too_low">> >>
    ELSE IF max_height_normalized < 400 THEN <<1500, <<"toss_rather_low">> >>
    ELSE IF max_height_normalized > 800 THEN <<4000, <<"toss_much_too_high">> >>
    ELSE IF max_height_normalized > 700 THEN <<2500, <<"toss_too_high">> >>
    ELSE IF max_height_normalized > 600 THEN <<1000, <<"toss_rather_high">> >>
    ELSE <<0, <<>> >>

\* <<penalty, issue>> of the forward-distance bands
TossDistanceBand(forward_distance) ==
    IF forward_distance < 30 THEN <<4000, <<"toss_forward_much_too_short">> >>
    ELSE IF forward_distance < 50 THEN <<2500, <<"toss_forward_too_short">> >>
    ELSE IF forward_distance < 80 THEN <<1000, <<"toss_forward_rather_short">> >>
    ELSE IF forward_distance > 250 THEN <<4000, <<"toss_forward_much_too_far">> >>
    ELSE IF forward_distance > 200 THEN <<2500, <<"toss_forward_too_far">> >>
    ELSE IF forward_distance > 150 THEN <<1000, <<"toss_forward_rather_far">> >>
    ELSE <<0, <<>> >>

\* <<consistency_penalty, issue>>; the penalty is computed and never applied
TossConsistencyBand(consistency_score) ==
    IF consistency_score < 500 THEN <<4000, <<"toss_path_very_unstable">> >>
    ELSE IF consistency_score < 600 THEN <<2500, <<"toss_path_unstable">> >>
    ELSE IF consistency_score < 700 THEN <<1000, <<"toss_path_rather_unstable">> >>
    ELSE <<0, <<>> >>

\* _get_toss_recommendations
GetTossRecommendations(max_height, forward_distance, issues) ==
    (IF max_height < 300 THEN <<"toss_higher">>
     ELSE IF max_height > 700 THEN <<"toss_lower">>
     ELSE <<>>)
    \o (IF forward_distance < 50 THEN <<"toss_further_forward">>
        ELSE IF forward_distance > 200 THEN <<"toss_less_forward">>
        ELSE <<>>)

\* overall_score is rounded down to a thousandth
\* (height_score + distance_score + consistency_score * 10) / 3, thousandths
TossOverallScore(height_score, distance_score, consistency_score) ==
    (height_score + distance_score + consistency_score * 10) \div 3

AnalyzeTossTrajectory(pose, phases) ==
    LET left_wrist_trajectory == ExtractLandmarkTrajectory(pose, "left_wrist")
        toss_trajectory == TossTrajectory(left_wrist_trajectory, phases)
    IN IF left_wrist_trajectory = <<>>
       THEN TossNotDetected("toss_not_detected", "check_video_quality")
       ELSE IF toss_trajectory = <<>>
       THEN TossNotDetected("toss_data_insufficient", "film_toss_more_clearly")
       ELSE IF \E i \in 1..Len(toss_trajectory) : ~HasY(toss_trajectory[i])
       THEN [raised |-> "KeyError"]
       ELSE
       LET heights == [i \in 1..Len(toss_trajectory) |-> toss_trajectory[i][2]]
           max_height_normalized == 1000 - heights[ArgMin(heights) + 1]
           forward_distance ==
               Abs(toss_trajectory[Len(toss_trajectory)][1] - toss_trajectory[1][1])
           consistency_score == CalculateTrajectorySmoothness(toss_trajectory)
           hband == TossHeightBand(max_height_normalized)
           dband == TossDistanceBand(forward_distance)
           cband == TossConsistencyBand(consistency_score)
           height_score   == 10000 - hband[1]
           distance_score == 10000 - dband[1]
           issues == hband[2] \o dband[2] \o cband[2]
       IN [max_height        |-> max_height_normalized,
           forward_distance  |-> forward_distance,
           consistency_score |-> consistency_score,
           height_score      |-> height_score,
           distance_score    |-> distance_score,
           overall_score     |-> TossOverallScore(height_score, distance_score,
                                                   consistency_score),
           issues            |-> issues,
           recommendations   |-> GetTossRecommendations(
                                     max_height_normalized, forward_distance, issues)]

-----------------------------------------------------------------------------
(* analyze_timing                                                          *)

\* ideal_phase_ratios.get(name, 0.15), in hundredths
\* every phase measured against the default of ideal_phase_ratios.get
IdealPhaseRatioDefault(name) == 15

IdealPhaseRatio(name) ==
    CASE name = "preparation"     -> 15
      [] name = "ball_toss"       -> 20
      [] name = "trophy_position" -> 25
      [] name = "acceleration"    -> 15
      [] name = "contact"         -> 5
      [] name = "follow_through"  -> 20
      [] OTHER                    -> 15

\* phase_score of one phase: ratio_diff = |duration / n - ideal| is compared
\* through  |100 * duration - ideal * n|  against  100 * n * threshold
PhaseTimingScore(phase, n) ==
    LET diff == IF n > 0 THEN Abs(100 * phase.duration - IdealPhaseRatio(phase.name) * n)
                ELSE IdealPhaseRatio(phase.name)
        unit == IF n > 0 THEN n ELSE 1
    IN IF diff < 3 * unit THEN 10000
       ELSE IF diff < 6 * unit THEN 8500
       ELSE IF diff < 10 * unit THEN 7000
       ELSE IF diff < 15 * unit THEN 5500
       ELSE IF diff < 20 * unit THEN 4000
       ELSE 2000

\* the issue of a phase scored 2.0: <<name, "too_long">> or <<name, "too_short">>
PhaseTimingIssue(phase, n) ==
    IF PhaseTimingScore(phase, n) # 2000 THEN <<>>
    ELSE IF n > 0 /\ 100 * phase.duration > IdealPhaseRatio(phase.name) * n
         THEN << <<phase.name, "too_long">> >>
    ELSE << <<phase.name, "too_short">> >>

RECURSIVE ConcatAll(_)
ConcatAll(lists) ==
    IF lists = <<>> THEN <<>> ELSE Head(lists) \o ConcatAll(Tail(lists))

\* _get_timing_recommendations
GetTimingRecommendations(timing_issues) ==
    IF timing_issues # <<>> THEN <<"mind_phase_rhythm", "practice_with_metronome">>
    ELSE <<>>

\* overall_score, the mean of the phase scores, is rounded down to a thousandth
AnalyzeTiming(pose, phases) ==
    LET n == Len(pose)
        names == {phases[k].name : k \in 1..Len(phases)}
        Last(name) == phases[CHOOSE k \in 1..Len(phases) :
                                 /\ phases[k].name = name
                                 /\ \A j \in (k + 1)..Len(phases) : phases[j].name # name]
        timing_scores == [name \in names |-> PhaseTimingScore(Last(name), n)]
        timing_issues == ConcatAll([k \in 1..Len(phases) |-> PhaseTimingIssue(phases[k], n)])
        RECURSIVE Total(_)
        Total(S) == IF S = {} THEN 0
                    ELSE LET x == CHOOSE y \in S : TRUE
                         IN timing_scores[x] + Total(S \ {x})
    IN [total_duration  |-> n,
        phase_scores    |-> timing_scores,
        overall_score   |-> IF names = {} THEN 0 ELSE Total(names) \div Cardinality(names),
        issues          |-> timing_issues,
        recommendations |-> GetTimingRecommendations(timing_issues)]

-----------------------------------------------------------------------------
(* FollowThroughAnalyzer (follow_through_analyzer.py)                      *)

\* seq[start:stop] of Python, indices 0-based, negative ones counted from
\* the end
PySlice(seq, start, stop) ==
    LET n  == Len(seq)
        lo == IF start < 0 THEN Max2(n + start, 0) ELSE Min2(start, n)
        hi == IF stop < 0 THEN Max2(n + stop, 0) ELSE Min2(stop, n)
    IN SubSeq(seq, lo + 1, hi)

\* the samples of a landmark in the frames that have a pose and the landmark
PositionsOf(frames, name) ==
    ValidPoints([i \in 1..Len(frames) |-> TrajectoryEntry(frames[i], name)])

\* _analyze_swing_completion
AnalyzeSwingCompletion(frames) ==
    LET right_wrist_positions == PositionsOf(frames, "right_wrist")
        start_pos == right_wrist_positions[1]
        end_pos   == right_wrist_positions[Len(right_wrist_positions)]
        horizontal_movement == end_pos[1] - start_pos[1]
        vertical_movement   == start_pos[2] - end_pos[2]
        completion_score ==
            10000
            - (IF horizontal_movement < 100 THEN 3000
               ELSE IF horizontal_movement < 150 THEN 1500 ELSE 0)
            - (IF vertical_movement < 50 THEN 2000
               ELSE IF vertical_movement < 100 THEN 1000 ELSE 0)
    IN IF Len(right_wrist_positions) < 3
       THEN [score |-> 5000, completion_rate |-> 500,
             issue |-> "swing_data_insufficient"]
       ELSE [score |-> Max2(0, completion_score),
             completion_rate |->
                 Min2(1000, ((horizontal_movement + vertical_movement) * 10) \div 3),
             horizontal_movement |-> horizontal_movement,
             vertical_movement   |-> vertical_movement]

\* sqrt(k * sum(v^2) - sum(v)^2) = k * np.std(v), rounded down
ScaledStd(values) ==
    LET k == Len(values)
        S == SumSeq(values)
    IN ISqrt(k * SumSeq([i \in 1..k |-> values[i] * values[i]]) - S * S)

\* _calculate_rotation_consistency, in thousandths; the angles enter in whole
\* degrees
CalculateRotationConsistency(angles) ==
    IF Len(angles) < 2 THEN 500
    ELSE LET angle_changes ==
                 [i \in 1..(Len(angles) - 1) |->
                     Abs(Degrees(angles[i + 1]) - Degrees(angles[i]))]
         IN Max2(0, 1000 - (ScaledStd(angle_changes) * 1000)
                               \div (30 * Len(angle_changes)))

\* _analyze_body_rotation_completion
AnalyzeBodyRotationCompletion(frames) ==
    LET shoulder_angles ==
            ValidPoints(Rotations(frames, "left_shoulder", "right_shoulder"))
        final_rotation == shoulder_angles[Len(shoulder_angles)]
        rotation_consistency == CalculateRotationConsistency(shoulder_angles)
        completion_score ==
            10000
            - (IF AngleLess(final_rotation, 100) THEN 3000
               ELSE IF AngleLess(final_rotation, 110) THEN 1500 ELSE 0)
            - (IF rotation_consistency < 700 THEN 2000 ELSE 0)
    IN IF shoulder_angles = <<>>
       THEN [score |-> 5000, rotation_completion |-> 500,
             issue |-> "rotation_data_insufficient"]
       ELSE [score |-> Max2(0, completion_score),
             final_rotation |-> final_rotation,
             max_rotation   |-> shoulder_angles[MaxAngleIndex(shoulder_angles)],
             rotation_consistency |-> rotation_consistency]

\* _calculate_position_stability, in thousandths; the standard deviations
\* are taken of the offsets from the first position
CalculatePositionStability(positions) ==
    IF Len(positions) < 2 THEN 500
    ELSE LET k  == Len(positions)
             xs == [i \in 1..k |-> positions[i][1] - positions[1][1]]
             ys == [i \in 1..k |-> positions[i][2] - positions[1][2]]
         IN Max2(0, 1000 - ((ScaledStd(xs) + ScaledStd(ys)) * 5) \div k)

\* _analyze_balance_maintenance
AnalyzeBalanceMaintenance(frames) ==
    LET left_ankle_positions  == PositionsOf(frames, "left_ankle")
        right_ankle_positions == PositionsOf(frames, "right_ankle")
        left_stability  == CalculatePositionStability(left_ankle_positions)
        right_stability == CalculatePositionStability(right_ankle_positions)
        avg_stability   == (left_stability + right_stability) \div 2
        balance_score ==
            10000 - (IF avg_stability < 600 THEN 4000
                     ELSE IF avg_stability < 750 THEN 2000
                     ELSE IF avg_stability < 850 THEN 1000 ELSE 0)
    IN IF Len(left_ankle_positions) < 3 \/ Len(right_ankle_positions) < 3
       THEN [score |-> 5000, stability |-> 500,
             issue |-> "balance_data_insufficient"]
       ELSE [score |-> Max2(0, balance_score),
             left_stability    |-> left_stability,
             right_stability   |-> right_stability,
             overall_stability |-> avg_stability]

\* FollowThroughAnalyzer._calculate_trajectory_smoothness, in thousandths:
\* one minus the mean turning angle over pi; the turning angles enter in
\* whole degrees
CalculatePathSmoothness(positions) ==
    IF Len(positions) < 3 THEN 500
    ELSE LET Turn(i) == CalculateJointAngle(
                            <<2 * positions[i][1] - positions[i - 1][1],
                              2 * positions[i][2] - positions[i - 1][2]>>,
                            positions[i], positions[i + 1])
             curvature_changes ==
                 ValidPoints([i \in 1..(Len(positions) - 2) |-> Turn(i + 1)])
             degrees == [i \in 1..Len(curvature_changes) |->
                            Degrees(curvature_changes[i])]
         IN IF curvature_changes = <<>> THEN 500
            ELSE Max2(0, 1000 - (SumSeq(degrees) * 1000)
                                  \div (180 * Len(degrees)))

\* _analyze_racket_path
AnalyzeRacketPath(frames) ==
    LET right_wrist_positions == PositionsOf(frames, "right_wrist")
        path_smoothness == CalculatePathSmoothness(right_wrist_positions)
        path_score == 10000 - (IF path_smoothness < 600 THEN 3000
                               ELSE IF path_smoothness < 750 THEN 1500 ELSE 0)
    IN IF Len(right_wrist_positions) < 3
       THEN [score |-> 5000, path_quality |-> 500,
             issue |-> "path_data_insufficient"]
       ELSE [score |-> Max2(0, path_score),
             path_smoothness |-> path_smoothness,
             path_quality    |-> path_smoothness]

\* the four sub-scores added up without their weights
CalculateFollowThroughScoreUnweighted(swing_completion, body_rotation, balance, racket_path) ==
    swing_completion.score + body_rotation.score + balance.score + racket_path.score

\* _calculate_follow_through_score: weights 0.3, 0.25, 0.25, 0.2
CalculateFollowThroughScore(swing_completion, body_rotation, balance, racket_path) ==
    (swing_completion.score * 3000 + body_rotation.score * 2500
     + balance.score * 2500 + racket_path.score * 2000) \div 10000

\* _collect_issues
CollectIssues(swing_completion, body_rotation, balance, racket_path) ==
    (IF swing_completion.score < 7000 THEN <<"swing_incomplete">> ELSE <<>>)
    \o (IF body_rotation.score < 7000 THEN <<"rotation_incomplete">> ELSE <<>>)
    \o (IF balance.score < 7000 THEN <<"balance_problem">> ELSE <<>>)
    \o (IF racket_path.score < 7000 THEN <<"racket_path_unstable">> ELSE <<>>)

\* _get_follow_through_recommendations
GetFollowThroughRecommendations(overall_score) ==
    IF overall_score < 6000
    THEN <<"review_follow_through_basics", "swing_through_to_the_left",
           "complete_the_body_rotation">>
    ELSE IF overall_score < 8000
    THEN <<"improve_follow_through_completion", "swing_through_in_balance">>
    ELSE <<"follow_through_is_good">>

\* _create_fallback_result
CreateFallbackResult ==
    [swing_completion         |-> [score |-> 5000, completion_rate |-> 500],
     body_rotation_completion |-> [score |-> 5000, rotation_completion |-> 500],
     balance_maintenance      |-> [score |-> 5000, stability |-> 500],
     racket_path              |-> [score |-> 5000, path_quality |-> 500],
     overall_score            |-> 5000,
     issues                   |-> <<"follow_through_phase_not_found">>,
     recommendations          |-> <<"check_follow_through_basics">>]

\* analyze_follow_through: the phase is the first whose name contains
\* 'follow'; its frames are pose_results[start_frame : end_frame + 1]
AnalyzeFollowThrough(pose, phases) ==
    IF ~HasPhase(phases, "follow_through") THEN CreateFallbackResult
    ELSE
    LET follow_through_phase == PhaseNamed(phases, "follow_through")
        follow_through_frames ==
            PySlice(pose, follow_through_phase.start_frame,
                    follow_through_phase.end_frame + 1)
        swing_completion == AnalyzeSwingCompletion(follow_through_frames)
        body_rotation_completion ==
            AnalyzeBodyRotationCompletion(follow_through_frames)
        balance_maintenance == AnalyzeBalanceMaintenance(follow_through_frames)
        racket_path == AnalyzeRacketPath(follow_through_frames)
        overall_score == CalculateFollowThroughScore(
                             swing_completion, body_rotation_completion,
                             balance_maintenance, racket_path)
    IN [swing_completion         |-> swing_completion,
        body_rotation_completion |-> body_rotation_completion,
        balance_maintenance      |-> balance_maintenance,
        racket_path              |-> racket_path,
        overall_score            |-> overall_score,
        issues                   |-> CollectIssues(
                                         swing_completion, body_rotation_completion,
                                         balance_maintenance, racket_path),
        recommendations          |-> GetFollowThroughRecommendations(overall_score)]

-----------------------------------------------------------------------------
(* calculate_overall_score                                                 *)

Categories == <<"knee_movement", "elbow_position", "toss_trajectory",
                "body_rotation", "timing", "follow_through">>

\* an earlier weighting of the same six categories
WeightsEven == <<15, 20, 15, 20, 5, 25>>

\* weights of calculate_overall_score, in hundredths, in dict order
Weights == <<5, 20, 15, 30, 5, 25>>

\* analysis_results[category].get('overall_score', 0.0)
CategoryScore(analysis_results, category) ==
    IF "overall_score" \in DOMAIN analysis_results[category]
    THEN analysis_results[category].overall_score
    ELSE 0

\* sum(scores) if scores else 0.0; category scores in thousandths, the
\* result in units of 10^-5 (thousandths times hundredths)
CalculateOverallScore(analysis_results) ==
    LET Term(k) == IF Categories[k] \in DOMAIN analysis_results
                   THEN CategoryScore(analysis_results, Categories[k]) * Weights[k]
                   ELSE 0
    IN SumSeq([k \in 1..Len(Categories) |-> Term(k)])

-----------------------------------------------------------------------------
(* analyze_serve_motion                                                    *)

\* [result for result in pose_results if result.get('has_pose', False)]
DetectedFrames(pose) ==
    LET HasPose(frame) == frame.has_pose
    IN SelectSeq(pose, HasPose)

\* _extract_video_metadata: duration in 1/30 s, fps in thousandths,
\* detection_rate as <<detected, total>>
ExtractVideoMetadata(pose) ==
    IF pose = <<>>
    THEN [total_frames |-> 0, duration |-> 0, fps |-> 0, detected_frames |-> 0]
    ELSE LET n == Len(pose)
             first_timestamp == pose[1].timestamp
             last_timestamp  == pose[n].timestamp
             timed == n > 1 /\ last_timestamp > first_timestamp
         IN [total_frames    |-> n,
             duration        |-> IF timed THEN last_timestamp - first_timestamp
                                 ELSE n,
             fps             |-> IF timed
                                 THEN ((n - 1) * DefaultFps * 1000)
                                          \div (last_timestamp - first_timestamp)
                                 ELSE DefaultFps * 1000,
             detected_frames |-> Len(DetectedFrames(pose)),
             detection_rate  |-> <<Len(DetectedFrames(pose)), n>>]

\* the category entry of the error result
InsufficientEntry(recommendation) ==
    [overall_score   |-> 0,
     issues          |-> <<"pose_detection_insufficient">>,
     recommendations |-> <<recommendation>>]

\* the result returned when fewer than ten frames have a pose; now is
\* int(time.time() * 1000)
InsufficientPoseResult(pose, now) ==
    [analysis_id        |-> now,
     video_metadata     |-> ExtractVideoMetadata(pose),
     serve_phases       |-> <<>>,
     technical_analysis |->
         [knee_movement   |-> InsufficientEntry("improve_video_quality"),
          elbow_position  |-> InsufficientEntry("film_the_body_clearly"),
          toss_trajectory |-> InsufficientEntry("improve_lighting"),
          body_rotation   |-> InsufficientEntry("adjust_camera_angle"),
          timing          |-> InsufficientEntry("raise_video_resolution")],
     overall_score      |-> 0,
     recommendations    |-> <<"pose_detection_insufficient_retry">>]

\* the six scorers in the order analyze_serve_motion runs them
TechnicalAnalysis(pose, phases) ==
    [knee_movement   |-> AnalyzeKneeMovement(pose, phases),
     elbow_position  |-> AnalyzeElbowPosition(pose, phases),
     toss_trajectory |-> AnalyzeTossTrajectory(pose, phases),
     body_rotation   |-> AnalyzeBodyRotation(pose, phases),
     timing          |-> AnalyzeTiming(pose, phases),
     follow_through  |-> AnalyzeFollowThrough(pose, phases)]

\* _generate_recommendations
GenerateRecommendations(analysis_results) ==
    ConcatAll([k \in 1..Len(Categories) |->
                  IF "recommendations" \in DOMAIN analysis_results[Categories[k]]
                  THEN analysis_results[Categories[k]].recommendations
                  ELSE <<>>])

\* the serve_phases dictionary of the result
PhaseDict(phases) ==
    [name \in {phases[k].name : k \in 1..Len(phases)} |->
        LET phase == phases[CHOOSE k \in 1..Len(phases) :
                                /\ phases[k].name = name
                                /\ \A j \in (k + 1)..Len(phases) : phases[j].name # name]
        IN [start_frame |-> phase.start_frame,
            end_frame   |-> phase.end_frame,
            duration    |-> phase.duration,
            key_events  |-> phase.key_events]]

\* lines 123 to 189 of analyze_serve_motion: the scorers have run on the
\* phases; a scorer's exception leaves the method, else the result dictionary
\* is assembled
AssembleResult(pose, phases, analysis) ==
    IF "raised" \in DOMAIN analysis.toss_trajectory
    THEN analysis.toss_trajectory
    ELSE [analysis_id        |-> (pose[1].timestamp * 1000) \div DefaultFps,
          video_metadata     |-> ExtractVideoMetadata(pose),
          serve_phases       |-> PhaseDict(phases),
          technical_analysis |-> analysis,
          overall_score      |-> CalculateOverallScore(analysis),
          recommendations    |-> GenerateRecommendations(analysis)]

\* lines 123 to 155: the six scorers on the segmenter's phases
ServeMotionResult(pose, phases) ==
    AssembleResult(pose, phases, TechnicalAnalysis(pose, phases))

\* analyze_serve_motion; the result's overall_score is in units of 10^-5,
\* analysis_id is int(timestamp * 1000) of the first frame
AnalyzeServeMotion(pose, now) ==
    IF pose = <<>>
    THEN [raised |-> "ValueError", message |-> "pose_results_empty"]
    ELSE IF Len(DetectedFrames(pose)) < MinDetectedFrames
    THEN InsufficientPoseResult(pose, now)
    ELSE ServeMotionResult(pose, IdentifyServePhases(pose))

-----------------------------------------------------------------------------
(* determine_skill_level (motion_analyzer.py)                              *)
(* The overall score of motion_analyzer.py is the fraction <<num, den>> of *)
(* thousandths, den > 0: the mean phase score and the detection rate are   *)
(* quotients.                                                              *)

\* analysis_results.get('overall_score', 7.0)
OverallScoreOf(analysis_results) ==
    IF "overall_score" \in DOMAIN analysis_results
    THEN analysis_results.overall_score
    ELSE <<7000, 1>>

DetermineSkillLevelStrict(analysis_results) ==
    LET overall_score == OverallScoreOf(analysis_results)
    IN IF overall_score[1] > 8500 * overall_score[2] THEN "professional"
       ELSE IF overall_score[1] > 7000 * overall_score[2] THEN "advanced"
       ELSE IF overall_score[1] > 5500 * overall_score[2] THEN "intermediate"
       ELSE "beginner"

DetermineSkillLevel(analysis_results) ==
    LET overall_score == OverallScoreOf(analysis_results)
    IN IF overall_score[1] >= 8500 * overall_score[2] THEN "professional"
       ELSE IF overall_score[1] >= 7000 * overall_score[2] THEN "advanced"
       ELSE IF overall_score[1] >= 5500 * overall_score[2] THEN "intermediate"
       ELSE "beginner"

-----------------------------------------------------------------------------
(* The request pipeline: analyze_video (main.py) and analyze_motion,       *)
(* calculate_tiered_overall_score (motion_analyzer.py)                     *)

\* step (6) of analyze_video: six phases of total_frames // 6 frames each
\* (1 when there is no frame), end_frame clipped to total_frames
HandlerServePhases(n) ==
    LET phase_duration == IF n # 0 THEN n \div 6 ELSE 1
    IN [i \in 1..Len(PhaseNames) |->
           LET start_frame == (i - 1) * phase_duration
               end_frame   == Min2(i * phase_duration, n)
           IN ServePhase(PhaseNames[i], start_frame, end_frame,
                         end_frame - start_frame, <<>>)]

\* r.get('landmarks') is truthy: the frame has at least one landmark
HasLandmarks(frame) == DOMAIN frame.landmarks # {}

\* _calculate_basic_metrics; detection_rate as <<detected, total>>
CalculateBasicMetrics(pose) ==
    LET total_frames_   == Len(pose)
        detected_frames == Len(SelectSeq(pose, HasLandmarks))
    IN [total_frames       |-> total_frames_,
        detected_frames    |-> detected_frames,
        detection_rate     |-> IF total_frames_ > 0
                               THEN <<detected_frames, total_frames_>>
                               ELSE <<0, 1>>,
        average_confidence |-> 850]

\* round(detection_rate * 10.0, 1) in thousandths, ties to the even tenth
RoundedPhaseScore(pose_count, total_count) ==
    LET q == (100 * pose_count) \div total_count
        r == (100 * pose_count) % total_count
    IN IF 2 * r > total_count \/ (2 * r = total_count /\ q % 2 = 1)
       THEN (q + 1) * 100
       ELSE q * 100

\* the frames of a phase in _analyze_phases: pose_results[start:end]
PhaseFramesOf(pose, phase) == PySlice(pose, phase.start_frame, phase.end_frame)

\* _analyze_phases raises (and returns {}) when the feedback string reads
\* detection_rate before any phase has assigned it: the first phase is empty
AnalyzePhasesRaises(phases, pose) ==
    phases # <<>> /\ PhaseFramesOf(pose, phases[1]) = <<>>

\* _analyze_phases
AnalyzePhases(phases, pose) ==
    IF AnalyzePhasesRaises(phases, pose) THEN <<>>
    ELSE [name \in {phases[k].name : k \in 1..Len(phases)} |->
             LET phase == phases[CHOOSE k \in 1..Len(phases) :
                                     /\ phases[k].name = name
                                     /\ \A j \in (k + 1)..Len(phases) :
                                           phases[j].name # name]
                 phase_frames == PhaseFramesOf(pose, phase)
                 pose_count   == Len(SelectSeq(phase_frames, HasLandmarks))
                 total_count  == Len(phase_frames)
             IN [score         |-> IF total_count > 0
                                   THEN RoundedPhaseScore(pose_count, total_count)
                                   ELSE 0,
                 frame_count   |-> total_count,
                 pose_detected |-> pose_count]]

\* _perform_technical_analysis: fixed values
PerformTechnicalAnalysis ==
    [body_rotation   |-> [overall_score |-> 8500],
     elbow_position  |-> [overall_score |-> 8200],
     follow_through  |-> [overall_score |-> 8800],
     timing          |-> [overall_score |-> 8000],
     knee_movement   |-> [max_bend_angle |-> 135, overall_score |-> 8300],
     toss_trajectory |-> [max_height |-> 600, overall_score |-> 8100]]

\* _calculate_overall_score: 0.6 * mean phase score (7.0 without phases)
\* + 0.3 * follow-through score + 0.1 * detection rate, clamped to [0, 10]
CalculateOverallScoreOfMotion(basic_metrics, phase_analysis, follow_through_analysis) ==
    LET names == DOMAIN phase_analysis
        RECURSIVE Total(_)
        Total(S) == IF S = {} THEN 0
                    ELSE LET x == CHOOSE y \in S : TRUE
                         IN phase_analysis[x].score + Total(S \ {x})
        m     == IF names = {} THEN 1 ELSE Cardinality(names)
        sum   == IF names = {} THEN 7000 ELSE Total(names)
        det   == basic_metrics.detection_rate
        ft    == IF "overall_score" \in DOMAIN follow_through_analysis
                 THEN follow_through_analysis.overall_score ELSE 7000
        num   == 6 * sum * det[2] + 3 * ft * m * det[2] + 1000 * det[1] * m
        den   == 10 * m * det[2]
    IN IF num > 10000 * den THEN <<10000, 1>>
       ELSE IF num < 0 THEN <<0, 1>>
       ELSE <<num, den>>

\* analyze_motion
AnalyzeMotion(pose, phases, video_metadata) ==
    LET basic_metrics  == CalculateBasicMetrics(pose)
        phase_analysis == AnalyzePhases(phases, pose)
        follow_through_analysis == AnalyzeFollowThrough(pose, phases)
    IN [video_metadata          |-> video_metadata,
        serve_phases            |-> phases,
        basic_metrics           |-> basic_metrics,
        phase_analysis          |-> phase_analysis,
        follow_through_analysis |-> follow_through_analysis,
        technical_analysis      |-> PerformTechnicalAnalysis,
        overall_score           |-> CalculateOverallScoreOfMotion(
                                        basic_metrics, phase_analysis,
                                        follow_through_analysis),
        analysis_version        |-> "2.0.0"]

\* round(base_score, 2) in thousandths.  When the exact value lies halfway
\* between two hundredths the float that stands for it lies on one side or
\* the other; tie_up says on which
RoundToHundredths(base_score, tie_up) ==
    LET unit == 10 * base_score[2]
        q    == base_score[1] \div unit
        r    == base_score[1] % unit
    IN IF 2 * r > unit \/ (2 * r = unit /\ tie_up) THEN (q + 1) * 10
       ELSE q * 10

\* skill_level_names
SkillLevelName(skill_level) ==
    CASE skill_level = "professional" -> "pro_level"
      [] skill_level = "advanced"     -> "advanced_player"
      [] skill_level = "intermediate" -> "intermediate_player"
      [] skill_level = "beginner"     -> "beginner_player"

\* score_range of skill_criteria, <<low, high>> in thousandths
SkillCriteriaScoreRange(skill_level) ==
    CASE skill_level = "professional" -> <<8500, 9500>>
      [] skill_level = "advanced"     -> <<7000, 8400>>
      [] skill_level = "intermediate" -> <<5500, 6900>>
      [] skill_level = "beginner"     -> <<3000, 5400>>

\* calculate_tiered_overall_score
CalculateTieredOverallScore(analysis_results, tie_up) ==
    [total_score      |-> RoundToHundredths(OverallScoreOf(analysis_results), tie_up),
     skill_level      |-> DetermineSkillLevel(analysis_results),
     skill_level_name |-> SkillLevelName(DetermineSkillLevel(analysis_results)),
     component_scores |-> <<>>,
     weights_used     |-> <<>>]

\* step (8) of analyze_video and its response
WithTieredEvaluation(analysis_result, tie_up) ==
    [success |-> TRUE,
     result  |-> ("tiered_evaluation" :>
                      CalculateTieredOverallScore(analysis_result, tie_up))
                 @@ analysis_result]

\* steps (6) to (8) of analyze_video on the detector's frames: the analysis
\* result with its tiered_evaluation entry
AnalyzeVideo(pose, tie_up) ==
    WithTieredEvaluation(
        AnalyzeMotion(pose, HandlerServePhases(Len(pose)), [fps |-> DefaultFps]),
        tie_up)

-----------------------------------------------------------------------------
(* EvaluationCriteriaAnalyzer (evaluation_criteria_analysis.py): the banded *)
(* penalty tables and their lookup.  A band is <<low, high, penalty>>; a    *)
(* limit is <<0, v>> for the number v, <<-1, 0>> for -inf and <<1, 0>> for  *)
(* +inf.  Angles are whole degrees, offsets and heights thousandths,        *)
(* penalties thousandths of a point.                                        *)

Fin(v) == <<0, v>>

PosInf == <<1, 0>>

NegInf == <<-1, 0>>

Band(low, high, penalty) == <<low, high, penalty>>

\* self.current_criteria
CurrentCriteria ==
    [knee_movement |->
        [scoring_bands |->
            << Band(Fin(170), PosInf, -4000), Band(Fin(160), Fin(170), -3000),
               Band(Fin(150), Fin(160), -1500), Band(Fin(130), Fin(150), 0),
               Band(Fin(120), Fin(130), -1000), Band(Fin(110), Fin(120), -2500),
               Band(Fin(0), Fin(110), -4000) >>],
     elbow_position |->
        [scoring_bands |->
            << Band(NegInf, Fin(-80), -4000), Band(Fin(-80), Fin(-50), -2500),
               Band(Fin(-50), Fin(-20), -1000), Band(Fin(-20), Fin(50), 0),
               Band(Fin(50), Fin(100), -1000), Band(Fin(100), Fin(150), -2500),
               Band(Fin(150), PosInf, -4000) >>],
     body_rotation |->
        [shoulder_bands |->
            << Band(Fin(0), Fin(70), -4000), Band(Fin(70), Fin(80), -2500),
               Band(Fin(80), Fin(85), -1000), Band(Fin(85), Fin(95), 0),
               Band(Fin(95), Fin(105), -1500), Band(Fin(105), PosInf, -3000) >>,
         hip_bands |->
            << Band(Fin(0), Fin(25), -4000), Band(Fin(25), Fin(35), -2500),
               Band(Fin(35), Fin(40), -1000), Band(Fin(40), Fin(60), 0),
               Band(Fin(60), Fin(70), -1500), Band(Fin(70), PosInf, -3000) >>],
     toss_trajectory |->
        [height_bands |->
            << Band(Fin(0), Fin(200), -4000), Band(Fin(200), Fin(300), -3000),
               Band(Fin(300), Fin(400), -1500), Band(Fin(400), Fin(600), 0),
               Band(Fin(600), Fin(700), -1000), Band(Fin(700), Fin(800), -2500),
               Band(Fin(800), Fin(1000), -4000) >>]]

\* stricter_criteria of propose_stricter_criteria
StricterCriteria ==
    [knee_movement |->
        [scoring_bands |->
            << Band(Fin(170), PosInf, -6000), Band(Fin(160), Fin(170), -4500),
               Band(Fin(150), Fin(160), -2500), Band(Fin(145), Fin(150), -1000),
               Band(Fin(135), Fin(145), 0), Band(Fin(125), Fin(135), -1500),
               Band(Fin(115), Fin(125), -3500), Band(Fin(0), Fin(115), -6000) >>],
     elbow_position |->
        [scoring_bands |->
            << Band(NegInf, Fin(-60), -6000), Band(Fin(-60), Fin(-30), -4000),
               Band(Fin(-30), Fin(0), -1500), Band(Fin(0), Fin(30), 0),
               Band(Fin(30), Fin(60), -2000), Band(Fin(60), Fin(100), -4000),
               Band(Fin(100), PosInf, -6000) >>],
     body_rotation |->
        [shoulder_bands |->
            << Band(Fin(0), Fin(75), -6000), Band(Fin(75), Fin(83), -4000),
               Band(Fin(83), Fin(88), -2000), Band(Fin(88), Fin(92), 0),
               Band(Fin(92), Fin(98), -2500), Band(Fin(98), PosInf, -5000) >>,
         hip_bands |->
            << Band(Fin(0), Fin(30), -6000), Band(Fin(30), Fin(40), -4000),
               Band(Fin(40), Fin(45), -2000), Band(Fin(45), Fin(55), 0),
               Band(Fin(55), Fin(65), -2500), Band(Fin(65), PosInf, -5000) >>],
     toss_trajectory |->
        [height_bands |->
            << Band(Fin(0), Fin(250), -6000), Band(Fin(250), Fin(350), -4500),
               Band(Fin(350), Fin(450), -2500), Band(Fin(450), Fin(550), 0),
               Band(Fin(550), Fin(650), -2000), Band(Fin(650), Fin(750), -4000),
               Band(Fin(750), Fin(1000), -6000) >>]]

\* min_val <= value < max_val
BandMatches(band, value) ==
    /\ band[1][1] = -1 \/ (band[1][1] = 0 /\ band[1][2] <= value)
    /\ band[2][1] = 1 \/ (band[2][1] = 0 /\ value < band[2][2])

\* the bands of a table that the lookup's test accepts for a value
MatchingBands(bands, value) ==
    { k \in 1..Len(bands) : BandMatches(bands[k], value) }

\* the loop of the lookups: the penalty of the first band that matches, 0
\* when the loop runs out
FirstPenalty(bands, value) ==
    IF MatchingBands(bands, value) = {} THEN 0
    ELSE bands[CHOOSE k \in MatchingBands(bands, value) :
                   \A j \in MatchingBands(bands, value) : k <= j][3]

\* calculate_knee_score
CalculateKneeScore(angle, criteria) ==
    ScoreMax + FirstPenalty(criteria.scoring_bands, angle)

\* calculate_elbow_score
CalculateElbowScore(position, criteria) ==
    ScoreMax + FirstPenalty(criteria.scoring_bands, position)

\* calculate_rotation_score
CalculateRotationScore(shoulder, hip, criteria) ==
    ((ScoreMax + FirstPenalty(criteria.shoulder_bands, shoulder))
     + (ScoreMax + FirstPenalty(criteria.hip_bands, hip))) \div 2

-----------------------------------------------------------------------------
(* Pose Sequences handed to the operations                                 *)

Landmarks == {"right_wrist", "left_wrist", "right_elbow", "right_shoulder",
              "left_shoulder", "right_knee", "right_hip", "right_ankle"}

\* the frame of main()'s dummy_pose_results at 0-based position i, its wrist
\* heights bent into a V whose lowest y (highest point) is at aL / aR; with
\* aL = aR = n - 1 the frames are main()'s own
DummySample(name, i, aL, aR) ==
    CASE name = "right_wrist"    -> <<500 + 10 * i, 500 - 5 * aR + 5 * Abs(i - aR)>>
      [] name = "left_wrist"     -> <<400 - 5 * i, 600 - 10 * aL + 10 * Abs(i - aL)>>
      [] name = "right_elbow"    -> <<450 + 8 * i, 400 - 3 * i>>
      [] name = "right_shoulder" -> <<500, 300>>
      [] name = "left_shoulder"  -> <<400, 300>>
      [] name = "right_knee"     -> <<520, 800>>
      [] name = "right_hip"      -> <<500, 600>>
      [] name = "right_ankle"    -> <<530, 1000>>

\* what the detector emits for a frame without a pose; a timestamp is the
\* numerator of  frame_number / 30
NoPoseFrame ==
    [timestamp |-> 0, has_pose |-> FALSE, landmarks |-> [k \in {} |-> None]]

DummyFrame(i, aL, aR, present) ==
    [timestamp |-> i, has_pose |-> TRUE,
     landmarks |-> [k \in present |-> DummySample(k, i, aL, aR)]]

\* n frames, the first h of them without a pose
DummyPose(n, h, aL, aR, present) ==
    [j \in 1..n |-> IF j <= h THEN [NoPoseFrame EXCEPT !.timestamp = j - 1]
                    ELSE DummyFrame(j - 1, aL, aR, present)]

PresentChoices ==
    { {}, {"right_wrist"}, {"left_wrist", "right_wrist"}, Landmarks }

ApexChoices(n) == {0, n \div 3, (n * 2) \div 3, n - 1} \cap (0..(n - 1))

GeneratedPoses ==
    { DummyPose(p[1], p[2], p[3], p[4], p[5]) :
        p \in { q \in (0..MaxFrames) \X (0..MaxLeadingHoles)
                      \X (0..MaxFrames) \X (0..MaxFrames) \X PresentChoices :
                  /\ q[2] <= q[1]
                  /\ q[3] \in ApexChoices(q[1]) \cup {0}
                  /\ q[4] \in ApexChoices(q[1]) \cup {0} } }

\* main()'s dummy_pose_results
MainDummyPose ==
    DummyPose(DummyFrames, 0, DummyFrames - 1, DummyFrames - 1, Landmarks)

FrameAlphabet ==
    { NoPoseFrame } \cup { DummyFrame(0, 0, 0, present) : present \in PresentChoices }

RECURSIVE SeqsUpTo(_, _)
SeqsUpTo(S, n) ==
    IF n = 0 THEN { <<>> }
    ELSE LET shorter == SeqsUpTo(S, n - 1)
         IN shorter \cup { Append(s, x) : s \in shorter, x \in S }

SmallPoses == SeqsUpTo(FrameAlphabet, MaxSmallLen)

\* a Pose Sequence one of whose left-wrist samples lacks its 'y' key
WithBadSample(pose, j) ==
    [pose EXCEPT ![j].landmarks["left_wrist"] = <<pose[j].landmarks["left_wrist"][1]>>]

MalformedPoses ==
    { WithBadSample(pose, Len(pose)) :
        pose \in { g \in GeneratedPoses :
                     /\ Len(g) > 0
                     /\ g[Len(g)].has_pose
                     /\ "left_wrist" \in DOMAIN g[Len(g)].landmarks } }

PoseInputs == SmallPoses \cup GeneratedPoses \cup { MainDummyPose }

\* the values looked up in the band tables: every whole angle, and offsets
\* and heights on the grid of the limits
KneeAngleDomain == 0..180

RotationDomain == 0..180

RotationLimits == {0, 25, 30, 35, 40, 45, 55, 60, 65, 70, 75, 83, 88, 92, 98, 180}

ElbowOffsetDomain == { 10 * k - 250 : k \in 0..50 }

TossHeightDomain == { 50 * k : k \in 0..20 }

\* points for _calculate_joint_angle on their own, in units of 1e-7: a hole,
\* or a point of a grid on which limbs are shorter than, equal to and longer
\* than 1e-6
JointGrid == {0, 5, 10, 20}

JointPoints == { None } \cup (JointGrid \X JointGrid)

\* Pose Sequences for the scorers on their own.  The right shoulder stays at
\* (0.5, 0.3); the elbow is e thousandths above it, the left shoulder and the
\* left hip lie behind the right ones by the vectors t and h (None: no left
\* hip)
ScorerFrame(e, t, h) ==
    [timestamp |-> 0, has_pose |-> TRUE,
     landmarks |->
         [k \in {"right_shoulder", "left_shoulder", "right_elbow", "right_hip",
                 "right_knee", "right_ankle", "left_wrist", "right_wrist"}
                \cup (IF h = None THEN {} ELSE {"left_hip"}) |->
             CASE k = "right_shoulder" -> <<500, 300>>
               [] k = "left_shoulder"  -> <<500 - t[1], 300 - t[2]>>
               [] k = "right_elbow"    -> <<450, 300 - e>>
               [] k = "right_hip"      -> <<500, 600>>
               [] k = "left_hip"       -> <<500 - h[1], 600 - h[2]>>
               [] k = "right_knee"     -> <<520, 800>>
               [] k = "right_ankle"    -> <<530, 1000>>
               [] k = "left_wrist"     -> <<400, 600>>
               [] k = "right_wrist"    -> <<500, 500>>]]

\* elbow on odd frames at eA, on even frames at eB; shoulder line tA in the
\* first frame and tB afterwards
ScorerPose(eA, eB, tA, tB, h) ==
    [j \in 1..ScorerFrames |->
        ScorerFrame(IF j % 2 = 1 THEN eA ELSE eB, IF j = 1 THEN tA ELSE tB, h)]

\* elbow offsets around the limits -0.06, -0.03, 0, 0.03, 0.06 and 0.1
ElbowOffsets == {-70, -60, -45, -30, -15, 0, 15, 30, 31, 45, 60, 80, 100, 120}

\* shoulder lines at 0, just under 60, just under 75, just over 75, 90 and
\* 180 degrees
ShoulderLines ==
    {<<100, 0>>, <<500, 866>>, <<268, 1000>>, <<267, 1000>>, <<0, 100>>, <<-100, 0>>}

\* hip lines at 0, 45 and 90 degrees, or no left hip
HipLines == {<<100, 0>>, <<100, 100>>, <<0, 100>>, None}

ScorerPoses ==
    { ScorerPose(eA, eB, <<100, 0>>, <<100, 0>>, <<100, 100>>) :
        eA \in ElbowOffsets, eB \in ElbowOffsets }
    \cup { ScorerPose(15, 15, tA, tB, h) :
             tA \in ShoulderLines, tB \in ShoulderLines, h \in HipLines }

\* phase lists for the scorers: the proportional ones, none, and a lone
\* trophy_position that is whole, partial, inverted or past the end
ScorerPhaseLists ==
    { CreateFallbackPhases(ScorerFrames), <<>> }
    \cup { << ServePhase("trophy_position", r[1], r[2], r[2] - r[1], <<>>) >> :
             r \in { <<0, ScorerFrames - 1>>, <<1, 2>>, <<2, 1>>,
                     <<1, ScorerFrames + 5>> } }

-----------------------------------------------------------------------------
(* The operations                                                          *)

NoResult == [kind |-> "none"]

NoCapture == [opened |-> FALSE]

Init ==
    /\ pc = "idle"
    /\ pose_results = <<>>
    /\ landmark_name = ""
    /\ trajectory = <<>>
    /\ total_frames = 0
    /\ serve_phases = <<>>
    /\ path = ""
    /\ scores = <<>>
    /\ result = NoResult
    /\ analyzer = [serve_phases |-> PhaseNames]
    /\ runs = <<>>
    /\ capture = NoCapture

\* MotionAnalyzer._extract_landmark_trajectory(pose_results, landmark_name)
CallExtractLandmarkTrajectory ==
    /\ pc = "idle"
    /\ \E pose \in PoseInputs, name \in Landmarks :
          /\ pose_results' = pose
          /\ landmark_name' = name
          /\ trajectory' = ExtractLandmarkTrajectory(pose, name)
    /\ pc' = "extracted"
    /\ UNCHANGED <<analyzer, runs, capture, total_frames, serve_phases, path, scores, result>>

\* MotionAnalyzer._create_fallback_phases(total_frames)
CallCreateFallbackPhases ==
    /\ pc = "idle"
    /\ \E n \in 0..MaxTotalFrames :
          /\ total_frames' = n
          /\ serve_phases' = CreateFallbackPhases(n)
    /\ pc' = "fallback_created"
    /\ UNCHANGED <<analyzer, runs, capture, pose_results, landmark_name, trajectory, path, scores, result>>

\* MotionAnalyzer.identify_serve_phases(pose_results)
CallIdentifyServePhases ==
    /\ pc = "idle"
    /\ \E pose \in PoseInputs \cup MalformedPoses :
          /\ pose_results' = pose
          /\ total_frames' = Len(pose)
          /\ path' = SegmenterPath(pose)
          /\ serve_phases' = IdentifyServePhases(pose)
    /\ pc' = "identified"
    /\ UNCHANGED <<analyzer, runs, capture, landmark_name, trajectory, scores, result>>

\* category scores handed to calculate_overall_score on its own
ScoreGrid == { (k * ScoreMax) \div ScoreSteps : k \in 0..ScoreSteps }

AnalysisDicts ==
    { [c \in {Categories[k] : k \in 1..Len(Categories)} |->
          [overall_score |-> g[c]]] :
        g \in [{Categories[k] : k \in 1..Len(Categories)} -> ScoreGrid] }
    \cup
    \* a category missing, and a category without its overall_score
    { [c \in {Categories[k] : k \in 1..Len(Categories)} \ {m} |->
          [overall_score |-> ScoreMax]] :
        m \in {Categories[k] : k \in 1..Len(Categories)} }
    \cup
    { [c \in {Categories[k] : k \in 1..Len(Categories)} |->
          IF c = m THEN [issues |-> <<>>] ELSE [overall_score |-> ScoreMax]] :
        m \in {Categories[k] : k \in 1..Len(Categories)} }

\* MotionAnalyzer.calculate_overall_score(analysis_results)
CallCalculateOverallScore ==
    /\ pc = "idle"
    /\ \E a \in AnalysisDicts :
          /\ scores' = a
          /\ result' = [kind |-> "value", value |-> CalculateOverallScore(a)]
    /\ pc' = "overall_scored"
    /\ UNCHANGED <<analyzer, runs, capture, pose_results, landmark_name, trajectory, total_frames,
                   serve_phases, path>>

\* MotionAnalyzer.determine_skill_level(analysis_results)
CallDetermineSkillLevel ==
    /\ pc = "idle"
    /\ \E a \in { [overall_score |-> <<v, 1>>] : v \in 0..ScoreMax }
                \cup { [analysis_version |-> "2.0.0"] } :
          /\ scores' = a
          /\ result' = [kind |-> "value", value |-> DetermineSkillLevel(a)]
    /\ pc' = "skill_determined"
    /\ UNCHANGED <<analyzer, runs, capture, pose_results, landmark_name, trajectory, total_frames,
                   serve_phases, path>>

\* which return of analyze_serve_motion is taken
MotionPath(pose) ==
    IF pose = <<>> THEN "raised"
    ELSE IF Len(DetectedFrames(pose)) < MinDetectedFrames THEN "insufficient"
    ELSE "analyzed"

\* MotionAnalyzer.analyze_serve_motion(pose_results) of motion_analyzer-backup.py
CallAnalyzeServeMotion ==
    /\ pc = "idle"
    /\ \E pose \in PoseInputs, now \in 0..MaxClock :
          /\ pose_results' = pose
          /\ total_frames' = Len(pose)
          /\ path' = MotionPath(pose)
          /\ serve_phases' = IF path' = "analyzed"
                             THEN IdentifyServePhases(pose) ELSE <<>>
          /\ result' = AnalyzeServeMotion(pose, now)
          /\ scores' = IF "technical_analysis" \in DOMAIN result'
                       THEN result'.technical_analysis
                       ELSE <<>>
    /\ pc' = "motion_analyzed"
    /\ UNCHANGED <<analyzer, runs, capture, landmark_name, trajectory>>

\* analyze_video of main.py from the detector's frames on: the six phases,
\* analyze_motion and calculate_tiered_overall_score
CallAnalyzeVideo ==
    /\ pc = "idle"
    /\ \E pose \in PoseInputs, tie_up \in BOOLEAN :
          /\ pose_results' = pose
          /\ total_frames' = Len(pose)
          /\ serve_phases' = HandlerServePhases(Len(pose))
          /\ path' = IF AnalyzePhasesRaises(HandlerServePhases(Len(pose)), pose)
                     THEN "phases_raised" ELSE "phases_scored"
          /\ result' = AnalyzeVideo(pose, tie_up)
          /\ scores' = result'.result.technical_analysis
    /\ pc' = "video_analyzed"
    /\ UNCHANGED <<analyzer, runs, capture, landmark_name, trajectory>>

\* the scorers of analyze_serve_motion (lines 127 to 155) on a Pose Sequence
\* and a phase list of their own
CallTechnicalAnalysis ==
    /\ pc = "idle"
    /\ \E pose \in ScorerPoses, phases \in ScorerPhaseLists :
          /\ pose_results' = pose
          /\ total_frames' = Len(pose)
          /\ serve_phases' = phases
          /\ scores' = TechnicalAnalysis(pose, phases)
          /\ result' = scores'
    /\ path' = "scorers"
    /\ pc' = "scored"
    /\ UNCHANGED <<analyzer, runs, capture, landmark_name, trajectory>>

\* the lookups of EvaluationCriteriaAnalyzer on a table of the current or of
\* the stricter criteria; matched is the set of bands whose test accepts the
\* value
CallCalculateKneeScore ==
    /\ pc = "idle"
    /\ \E criteria \in {CurrentCriteria, StricterCriteria}, angle \in KneeAngleDomain :
          result' = [table   |-> "knee_movement",
                     value   |-> <<angle>>,
                     matched |-> << MatchingBands(criteria.knee_movement.scoring_bands,
                                                  angle) >>,
                     score   |-> CalculateKneeScore(angle, criteria.knee_movement)]
    /\ pc' = "band_scored"
    /\ UNCHANGED <<analyzer, runs, capture, pose_results, landmark_name, trajectory, total_frames,
                   serve_phases, path, scores>>

CallCalculateElbowScore ==
    /\ pc = "idle"
    /\ \E criteria \in {CurrentCriteria, StricterCriteria},
          position \in ElbowOffsetDomain :
          result' = [table   |-> "elbow_position",
                     value   |-> <<position>>,
                     matched |-> << MatchingBands(criteria.elbow_position.scoring_bands,
                                                  position) >>,
                     score   |-> CalculateElbowScore(position, criteria.elbow_position)]
    /\ pc' = "band_scored"
    /\ UNCHANGED <<analyzer, runs, capture, pose_results, landmark_name, trajectory, total_frames,
                   serve_phases, path, scores>>

CallCalculateRotationScore ==
    /\ pc = "idle"
    /\ \E criteria \in {CurrentCriteria, StricterCriteria},
          q \in (RotationDomain \X RotationLimits) \cup (RotationLimits \X RotationDomain) :
          result' = [table   |-> "body_rotation",
                     value   |-> q,
                     matched |-> << MatchingBands(criteria.body_rotation.shoulder_bands,
                                                  q[1]),
                                    MatchingBands(criteria.body_rotation.hip_bands,
                                                  q[2]) >>,
                     score   |-> CalculateRotationScore(q[1], q[2],
                                                        criteria.body_rotation)]
    /\ pc' = "band_scored"
    /\ UNCHANGED <<analyzer, runs, capture, pose_results, landmark_name, trajectory, total_frames,
                   serve_phases, path, scores>>

\* the same test on the toss height bands, which have no lookup of their own
CallMatchTossHeight ==
    /\ pc = "idle"
    /\ \E criteria \in {CurrentCriteria, StricterCriteria}, height \in TossHeightDomain :
          result' = [table   |-> "toss_trajectory",
                     value   |-> <<height>>,
                     matched |-> << MatchingBands(criteria.toss_trajectory.height_bands,
                                                  height) >>,
                     score   |-> ScoreMax
                                 + FirstPenalty(criteria.toss_trajectory.height_bands,
                                                height)]
    /\ pc' = "band_scored"
    /\ UNCHANGED <<analyzer, runs, capture, pose_results, landmark_name, trajectory, total_frames,
                   serve_phases, path, scores>>

\* MotionAnalyzer._calculate_joint_angle(point1, point2, point3); the three
\* points are kept in trajectory
CallCalculateJointAngle ==
    /\ pc = "idle"
    /\ \E point1 \in JointPoints, point2 \in JointPoints, point3 \in JointPoints :
          /\ trajectory' = <<point1, point2, point3>>
          /\ result' = [kind  |-> "value",
                        value |-> CalculateJointAngleIn(MinNormSqFine,
                                                        point1, point2, point3)]
    /\ pc' = "joint_angle"
    /\ UNCHANGED <<analyzer, runs, capture, pose_results, landmark_name, total_frames, serve_phases,
                   path, scores>>

\* analyze_timing on its own: it reads the length of the Pose Sequence and
\* the phases only, so the frames carry no pose
BlankPose(n) == [j \in 1..n |-> NoPoseFrame]

TimingPhaseLists(n) ==
    { CreateFallbackPhases(n), HandlerServePhases(n) }
        \cup { PrimaryPhases(a, c, n) : a \in ApexChoices(n), c \in ApexChoices(n) }

CallAnalyzeTiming ==
    /\ pc = "idle"
    /\ \E n \in 0..MaxTotalFrames :
          \E phases \in TimingPhaseLists(n) :
             /\ pose_results' = BlankPose(n)
             /\ total_frames' = n
             /\ serve_phases' = phases
             /\ scores' = [timing |-> AnalyzeTiming(pose_results', phases)]
    /\ pc' = "timing_scored"
    /\ UNCHANGED <<analyzer, runs, capture, landmark_name, trajectory, path,
                   result>>

\* analyze_knee_movement on its own.  A frame has no pose, or has hip and
\* ankle and a knee that is missing, lies on the hip (a ray of length 0), or
\* makes a straight, a bent or a deeply bent leg.
KneePositions == {None, <<500, 600>>, <<500, 610>>, <<505, 610>>, <<510, 610>>}

KneeFrame(knee) ==
    [timestamp |-> 0, has_pose |-> TRUE,
     landmarks |->
         [k \in {"right_hip", "right_ankle"}
                \cup (IF knee = None THEN {} ELSE {"right_knee"}) |->
             CASE k = "right_hip"   -> <<500, 600>>
               [] k = "right_ankle" -> <<500, 620>>
               [] k = "right_knee"  -> knee]]

KneePoses ==
    SeqsUpTo({NoPoseFrame} \cup {KneeFrame(knee) : knee \in KneePositions},
             MaxKneeFrames)

CallAnalyzeKneeMovement ==
    /\ pc = "idle"
    /\ \E pose \in KneePoses :
          /\ pose_results' = pose
          /\ total_frames' = Len(pose)
          /\ serve_phases' = CreateFallbackPhases(Len(pose))
          /\ scores' = [knee_movement |->
                           AnalyzeKneeMovement(pose, serve_phases')]
    /\ pc' = "knee_scored"
    /\ UNCHANGED <<analyzer, runs, capture, landmark_name, trajectory, path,
                   result>>

\* the two _calculate_trajectory_smoothness on their own: the one of
\* MotionAnalyzer takes the Trajectory, the one of FollowThroughAnalyzer the
\* positions its caller has already freed of holes
SmoothnessPoints == {None, <<0, 0>>, <<10, 0>>, <<30, 0>>, <<10, 10>>}

SmoothnessTrajectories == SeqsUpTo(SmoothnessPoints, MaxTrajectoryLen)

CallCalculateTrajectorySmoothness ==
    /\ pc = "idle"
    /\ \E traj \in SmoothnessTrajectories :
          /\ trajectory' = traj
          /\ result' = [trajectory_smoothness |->
                            CalculateTrajectorySmoothness(traj),
                        path_smoothness |->
                            CalculatePathSmoothness(ValidPoints(traj))]
    /\ pc' = "smoothness"
    /\ UNCHANGED <<analyzer, runs, capture, pose_results, landmark_name,
                   total_frames, serve_phases, path, scores>>

\* calculate_tiered_overall_score on its own, for every overall_score of
\* the scale in steps of a thousandth
CallCalculateTieredOverallScore ==
    /\ pc = "idle"
    /\ \E v \in 0..ScoreMax, tie_up \in BOOLEAN :
          /\ scores' = [overall_score |-> <<v, 1>>]
          /\ result' = [kind |-> "value",
                        value |-> CalculateTieredOverallScore(scores', tie_up)]
    /\ pc' = "tiered"
    /\ UNCHANGED <<analyzer, runs, capture, pose_results, landmark_name,
                   trajectory, total_frames, serve_phases, path>>

\* _calculate_overall_score of the request pipeline on its own: the phase
\* analysis is empty or scores the first three phases a and the last three
\* b; the follow-through analysis has an overall_score or none; the
\* detection rate is 0, 1/2 or 1
PhaseAnalyses ==
    { <<>> } \cup
    { [name \in { PhaseNames[k] : k \in 1..Len(PhaseNames) } |->
          [score |-> IF name \in {"preparation", "ball_toss", "trophy_position"}
                     THEN a ELSE b,
           frame_count |-> 1, pose_detected |-> 1]] :
        a \in ScoreGrid, b \in ScoreGrid }

FollowThroughAnalyses ==
    { [issues |-> <<>>] } \cup { [overall_score |-> v] : v \in ScoreGrid }

DetectionRates == { <<0, 1>>, <<1, 2>>, <<1, 1>> }

CallCalculateOverallScoreOfMotion ==
    /\ pc = "idle"
    /\ \E phase_analysis \in PhaseAnalyses,
          follow_through_analysis \in FollowThroughAnalyses,
          detection_rate \in DetectionRates :
          /\ scores' = [basic_metrics |-> [detection_rate |-> detection_rate],
                        phase_analysis |-> phase_analysis,
                        follow_through_analysis |-> follow_through_analysis]
          /\ result' = [kind |-> "value",
                        value |-> CalculateOverallScoreOfMotion(
                                      scores'.basic_metrics, phase_analysis,
                                      follow_through_analysis)]
    /\ pc' = "motion_overall"
    /\ UNCHANGED <<analyzer, runs, capture, pose_results, landmark_name,
                   trajectory, total_frames, serve_phases, path>>

(***************************************************************************)
(* The frame indices of a clip of n frames each reader of a Serve Phase    *)
(* looks at.  A slice pose_results[a:b] clips both ends to the list; a     *)
(* range(a, b + 1) guarded by i < len(...) keeps every i below n, and a    *)
(* negative i indexes from the end of the list.                            *)
(***************************************************************************)
SliceIndices(n, start, stop) ==
    LET lo == IF start < 0 THEN Max2(n + start, 0) ELSE Min2(start, n)
        hi == IF stop < 0 THEN Max2(n + stop, 0) ELSE Min2(stop, n)
    IN lo .. (hi - 1)

RangeIndices(n, start, end) ==
    { IF f < 0 THEN n + f ELSE f : f \in { g \in start..end : g < n } }

DetectionRateFrames(phase, n) ==
    SliceIndices(n, phase.start_frame, phase.end_frame)

ElbowFrames(phase, n) == RangeIndices(n, phase.start_frame, phase.end_frame)

TossFrames(phase, n) == RangeIndices(n, phase.start_frame, phase.end_frame)

FollowThroughFrames(phase, n) ==
    SliceIndices(n, phase.start_frame, phase.end_frame + 1)

(***************************************************************************)
(* Two analyses on one MotionAnalyzer and one Pose Sequence.  Each run is  *)
(* analyze_serve_motion cut at its three stages (gate and segmentation,    *)
(* scoring, assembly); the stages of the two runs interleave freely.  A    *)
(* run keeps phases, scores and result in its own locals; what the runs    *)
(* share is the list pose_results and the analyzer instance, which no      *)
(* statement of the method assigns to.                                     *)
(***************************************************************************)
RunIds == {1, 2}

ConcurrentPoses ==
    { <<>> } \cup { g \in GeneratedPoses :
                      Len(g) \in {MinDetectedFrames - 1, MaxFrames} }

NewRun ==
    [stage |-> "called", clock |-> 0, serve_phases |-> <<>>,
     technical_analysis |-> <<>>, result |-> NoResult]

EnterRun(run, pose, now) ==
    IF MotionPath(pose) = "analyzed"
    THEN [run EXCEPT !.stage = "segmented", !.clock = now,
                     !.serve_phases = IdentifyServePhases(pose)]
    ELSE [run EXCEPT !.stage = "returned", !.clock = now,
                     !.result = AnalyzeServeMotion(pose, now)]

ScoreRunFromInstance(run, pose) ==
    [run EXCEPT !.stage = "scored",
                !.technical_analysis = TechnicalAnalysis(pose, serve_phases)]

ScoreRun(run, pose) ==
    [run EXCEPT !.stage = "scored",
                !.technical_analysis = TechnicalAnalysis(pose, run.serve_phases)]

ReturnRun(run, pose) ==
    [run EXCEPT !.stage = "returned",
                !.result = AssembleResult(pose, run.serve_phases,
                                          run.technical_analysis)]

BeginAnalyses ==
    /\ pc = "idle"
    /\ \E pose \in ConcurrentPoses : pose_results' = pose
    /\ runs' = [r \in RunIds |-> NewRun]
    /\ pc' = "concurrent"
    /\ UNCHANGED <<analyzer, capture, landmark_name, trajectory, total_frames,
                   serve_phases, path, scores, result>>

EnterAnalysis(r) ==
    /\ pc = "concurrent"
    /\ runs[r].stage = "called"
    /\ \E now \in 0..MaxClock :
          runs' = [runs EXCEPT ![r] = EnterRun(runs[r], pose_results, now)]
    /\ UNCHANGED <<pc, pose_results, analyzer, capture, landmark_name,
                   trajectory, total_frames, serve_phases, path, scores,
                   result>>

ScoreAnalysis(r) ==
    /\ pc = "concurrent"
    /\ runs[r].stage = "segmented"
    /\ runs' = [runs EXCEPT ![r] = ScoreRun(runs[r], pose_results)]
    /\ UNCHANGED <<pc, pose_results, analyzer, capture, landmark_name,
                   trajectory, total_frames, serve_phases, path, scores,
                   result>>

ReturnAnalysis(r) ==
    /\ pc = "concurrent"
    /\ runs[r].stage = "scored"
    /\ runs' = [runs EXCEPT ![r] = ReturnRun(runs[r], pose_results)]
    /\ UNCHANGED <<pc, pose_results, analyzer, capture, landmark_name,
                   trajectory, total_frames, serve_phases, path, scores,
                   result>>

(***************************************************************************)
(* PoseDetector.process_video.  The video is what cv2.VideoCapture gives:  *)
(* whether it opened, how many frames cap.read() delivers, and the two     *)
(* metadata values CAP_PROP_FPS (here in hundredths of a frame per second, *)
(* 0 when the container does not say) and CAP_PROP_FRAME_COUNT (0 when the *)
(* container does not say).  The detector is a black box: on a sampled     *)
(* frame detect_pose raises, finds no pose, or finds one.  A timestamp     *)
(* frame_number / fps is the exact fraction <<numerator, denominator>>.    *)
(***************************************************************************)
FpsChoices == {0, 2997, 3000}

DetectionOutcomes == {"raised", "no_pose", "pose"}

DetectedLandmarks == [k \in {"left_wrist", "right_wrist"} |-> <<500, 500>>]

Timestamp(frame_number, fps) == <<frame_number * 100, fps>>

EmptyPoseData(frame_number, timestamp) ==
    [frame_number |-> frame_number, timestamp |-> timestamp,
     landmarks |-> <<>>, detection_confidence |-> 0, has_pose |-> FALSE]

DetectPose(outcome, frame_number, timestamp) ==
    IF outcome = "pose"
    THEN [EmptyPoseData(frame_number, timestamp)
             EXCEPT !.has_pose = TRUE, !.landmarks = DetectedLandmarks,
                    !.detection_confidence = 900]
    ELSE EmptyPoseData(frame_number, timestamp)

AppendPoseDataUnlessRaised(results, outcome, frame_number, timestamp) ==
    IF outcome = "raised" THEN results
    ELSE Append(results, DetectPose(outcome, frame_number, timestamp))

AppendPoseData(results, outcome, frame_number, timestamp) ==
    Append(results,
           IF outcome = "raised"
           THEN EmptyPoseData(frame_number, timestamp)
           ELSE DetectPose(outcome, frame_number, timestamp))

OpenVideo ==
    /\ pc = "idle"
    /\ \E opened \in BOOLEAN, frames \in 0..MaxVideoFrames,
          fps \in FpsChoices, counted \in BOOLEAN,
          skip_frames \in 1..MaxSkipFrames :
          IF ~opened
          THEN /\ pc' = "video_processed"
               /\ result' = [raised |-> "ValueError",
                             message |-> "cannot_open_video"]
               /\ UNCHANGED <<capture, pose_results>>
          ELSE /\ pc' = "reading"
               /\ capture' = [opened |-> TRUE, frames |-> frames, fps |-> fps,
                              frame_count |-> IF counted THEN frames ELSE 0,
                              skip_frames |-> skip_frames,
                              frame_number |-> 0, processed_frames |-> 0]
               /\ pose_results' = <<>>
               /\ UNCHANGED result
    /\ UNCHANGED <<analyzer, runs, landmark_name, trajectory, total_frames,
                   serve_phases, path, scores>>

ReadFrame ==
    /\ pc = "reading"
    /\ capture.frame_number < capture.frames
    /\ IF capture.frame_number % capture.skip_frames # 0
       THEN /\ capture' = [capture EXCEPT !.frame_number = @ + 1]
            /\ UNCHANGED <<pc, pose_results, result>>
       ELSE IF capture.fps = 0
       THEN /\ pc' = "video_processed"
            /\ result' = [raised |-> "ZeroDivisionError",
                          message |-> "frame_number / fps"]
            /\ UNCHANGED <<capture, pose_results>>
       ELSE /\ \E outcome \in DetectionOutcomes :
                  pose_results' =
                      AppendPoseData(pose_results, outcome,
                                     capture.frame_number,
                                     Timestamp(capture.frame_number, capture.fps))
            /\ IF /\ (capture.processed_frames + 1) % ProgressEvery = 0
                  /\ capture.frame_count = 0
               THEN /\ pc' = "video_processed"
                    /\ result' = [raised |-> "ZeroDivisionError",
                                  message |-> "frame_number / frame_count"]
                    /\ capture' = [capture EXCEPT !.processed_frames = @ + 1]
               ELSE /\ capture' = [capture EXCEPT !.processed_frames = @ + 1,
                                                  !.frame_number = @ + 1]
                    /\ UNCHANGED <<pc, result>>
    /\ UNCHANGED <<analyzer, runs, landmark_name, trajectory, total_frames,
                   serve_phases, path, scores>>

ReleaseVideo ==
    /\ pc = "reading"
    /\ capture.frame_number >= capture.frames
    /\ pc' = "video_processed"
    /\ capture' = [capture EXCEPT !.opened = FALSE]
    /\ result' = [kind |-> "value", value |-> pose_results]
    /\ UNCHANGED <<pose_results, analyzer, runs, landmark_name, trajectory,
                   total_frames, serve_phases, path, scores>>

Next ==
    \/ CallExtractLandmarkTrajectory
    \/ CallCreateFallbackPhases
    \/ CallIdentifyServePhases
    \/ CallCalculateOverallScore
    \/ CallDetermineSkillLevel
    \/ CallAnalyzeServeMotion
    \/ CallAnalyzeVideo
    \/ CallTechnicalAnalysis
    \/ CallCalculateKneeScore
    \/ CallCalculateElbowScore
    \/ CallCalculateRotationScore
    \/ CallMatchTossHeight
    \/ CallCalculateJointAngle
    \/ CallAnalyzeTiming
    \/ CallAnalyzeKneeMovement
    \/ CallCalculateTrajectorySmoothness
    \/ CallCalculateTieredOverallScore
    \/ CallCalculateOverallScoreOfMotion
    \/ BeginAnalyses
    \/ \E r \in RunIds : EnterAnalysis(r)
    \/ \E r \in RunIds : ScoreAnalysis(r)
    \/ \E r \in RunIds : ReturnAnalysis(r)
    \/ OpenVideo
    \/ ReadFrame
    \/ ReleaseVideo

Spec == Init /\ [][Next]_vars

-----------------------------------------------------------------------------
(* Properties                                                              *)

\* the frame indices a phase covers when end_frame is read as its last frame,
\* the reading under which _create_fallback_phases assigns end_frame
PhaseFrames(phase) == phase.start_frame .. phase.end_frame

PhaseFrameCount(phase) == phase.end_frame - phase.start_frame + 1

NamesInOrder(phases) ==
    /\ Len(phases) = Len(PhaseNames)
    /\ \A k \in 1..Len(PhaseNames) : phases[k].name = PhaseNames[k]

\* C1: for every total_frames >= 0 the six phases of _create_fallback_phases
\* partition [0, total_frames): every frame index lies in exactly one phase,
\* no phase reaches outside, the frame counts (and the durations, in frames)
\* sum to total_frames, and the last phase takes the rounding remainder.
C1_FallbackPartitions ==
    pc = "fallback_created" =>
        /\ Len(serve_phases) = 6
        /\ \A f \in 0..(total_frames - 1) :
              Cardinality({k \in 1..6 : f \in PhaseFrames(serve_phases[k])}) = 1
        /\ \A k \in 1..6 :
              /\ PhaseFrames(serve_phases[k]) \subseteq 0..(total_frames - 1)
              /\ PhaseFrameCount(serve_phases[k]) >= 0
              /\ serve_phases[k].duration = PhaseFrameCount(serve_phases[k])
        /\ SumSeq([k \in 1..6 |-> PhaseFrameCount(serve_phases[k])]) = total_frames
        /\ PhaseFrameCount(serve_phases[6]) =
              total_frames
              - SumSeq([k \in 1..5 |-> (total_frames * PhaseLengths[k]) \div 100])

\* a clip whose last phase is longer than its own 0.20 share: it took the remainder
C1_Witness ==
    /\ pc = "fallback_created"
    /\ total_frames = 7
    /\ PhaseFrameCount(serve_phases[6]) > (total_frames * PhaseLengths[6]) \div 100

AllFramesHavePose(pose) == \A j \in 1..Len(pose) : pose[j].has_pose

BothWristsEverywhere(pose) ==
    \A j \in 1..Len(pose) :
        {"left_wrist", "right_wrist"} \subseteq DOMAIN pose[j].landmarks

\* right-wrist x strictly increasing and y strictly decreasing over the clip
RightWristSwings(pose) ==
    \A j \in 1..(Len(pose) - 1) :
        /\ pose[j + 1].landmarks["right_wrist"][1] > pose[j].landmarks["right_wrist"][1]
        /\ pose[j + 1].landmarks["right_wrist"][2] < pose[j].landmarks["right_wrist"][2]

\* C2: a 150-frame Pose Sequence with a pose in every frame, both wrists present
\* and the right wrist moving smoothly right and up is segmented into six
\* phases in the fixed order, each with end_frame > start_frame.
C2_SwingSegmentsNonEmpty ==
    ( /\ pc = "identified"
      /\ Len(pose_results) = DummyFrames
      /\ AllFramesHavePose(pose_results)
      /\ BothWristsEverywhere(pose_results)
      /\ RightWristSwings(pose_results) ) =>
        /\ NamesInOrder(serve_phases)
        /\ \A k \in 1..Len(serve_phases) :
              serve_phases[k].end_frame > serve_phases[k].start_frame

\* C3: a 5-frame Pose Sequence fails the 10-sample gate; identify_serve_phases
\* returns six phases in the fixed order whose frame counts are the
\* proportional splits 0, 1, 1, 0, 0 and the remainder 3, summing to 5.
C3_FiveFramesFallBack ==
    (pc = "identified" /\ Len(pose_results) = 5) =>
        /\ path = "fallback_gate"
        /\ NamesInOrder(serve_phases)
        /\ [k \in 1..6 |-> PhaseFrameCount(serve_phases[k])] = <<0, 1, 1, 0, 0, 3>>
        /\ \A k \in 1..5 :
              PhaseFrameCount(serve_phases[k]) = (5 * PhaseLengths[k]) \div 100
        /\ SumSeq([k \in 1..6 |-> PhaseFrameCount(serve_phases[k])]) = 5

\* five frames, every one with a pose and both wrists: the gate, not missing
\* data, sends them to the fallback
C3_Witness ==
    /\ pc = "identified"
    /\ Len(pose_results) = 5
    /\ AllFramesHavePose(pose_results)
    /\ BothWristsEverywhere(pose_results)
    /\ path = "fallback_gate"

\* C7: the trajectory has the length of the Pose Sequence; position i is a hole
\* exactly when frame i has no pose or lacks the landmark, and is frame i's
\* own sample otherwise.
C7_TrajectoryAligned ==
    pc = "extracted" =>
        /\ Len(trajectory) = Len(pose_results)
        /\ \A i \in 1..Len(pose_results) :
              /\ (trajectory[i] = None) <=>
                    ( \/ ~pose_results[i].has_pose
                      \/ landmark_name \notin DOMAIN pose_results[i].landmarks )
              /\ trajectory[i] # None =>
                    trajectory[i] = pose_results[i].landmarks[landmark_name]

\* a hole in front of a sample: dropping the hole would shift the sample
C7_Witness ==
    /\ pc = "extracted"
    /\ Len(trajectory) >= 3
    /\ trajectory[1] = None
    /\ trajectory[2] = None
    /\ trajectory[3] # None

\* C8: for every Pose Sequence identify_serve_phases returns exactly six
\* phases with the six names in order; when the primary path fails (a sample
\* without 'y') the result is the fallback's: no key events, the proportional
\* frame counts, ending at the last frame.
C8_AlwaysSixPhases ==
    pc = "identified" =>
        /\ NamesInOrder(serve_phases)
        /\ path \in {"fallback_empty", "fallback_gate", "fallback_except", "primary"}
        /\ path = "fallback_except" =>
              /\ \A k \in 1..6 : serve_phases[k].key_events = <<>>
              /\ \A k \in 1..5 :
                    serve_phases[k].duration =
                        (Len(pose_results) * PhaseLengths[k]) \div 100
              /\ serve_phases[6].end_frame = Len(pose_results) - 1

\* the gate passed and the primary path raised
C8_Witness ==
    /\ pc = "identified"
    /\ path = "fallback_except"
    /\ Len(serve_phases) = 6

\* the request pipeline's score as a real number is zero
IsZeroScore(score) == score[1] = 0

\* C4: a zero-length Pose Sequence yields a single failure result carrying
\* overall_score 0 and an explanatory message, from analyze_serve_motion and
\* from the request pipeline alike; nothing is raised, nothing is segmented
\* or scored, and no non-zero overall score or skill tier is produced.
C4_EmptyInputFailsFast ==
    /\ (pc = "motion_analyzed" /\ pose_results = <<>>) =>
          /\ "raised" \notin DOMAIN result
          /\ "overall_score" \in DOMAIN result
          /\ result.overall_score = 0
          /\ result.recommendations # <<>>
          /\ serve_phases = <<>>
    /\ (pc = "video_analyzed" /\ pose_results = <<>>) =>
          /\ IsZeroScore(result.result.overall_score)
          /\ result.result.tiered_evaluation.total_score = 0
          /\ result.result.tiered_evaluation.skill_level
                 \notin {"beginner", "intermediate", "advanced", "professional"}

\* the issues that say a measurement could not be taken
InsufficientDataIssues ==
    {"pose_detection_insufficient", "toss_not_detected", "toss_data_insufficient",
     "swing_data_insufficient", "rotation_data_insufficient",
     "balance_data_insufficient", "path_data_insufficient",
     "follow_through_phase_not_found"}

\* a Category Score at the neutral 5.0 with an 'insufficient data' issue
NeutralWithIssue(entry) ==
    /\ entry.overall_score = 5000
    /\ \E k \in 1..Len(entry.issues) : entry.issues[k] \in InsufficientDataIssues

\* a follow-through sub-metric at the neutral 5.0 with its 'issue'
NeutralSubMetric(entry) ==
    /\ entry.score = 5000
    /\ "issue" \in DOMAIN entry
    /\ entry.issue \in InsufficientDataIssues

NoSampleOf(pose, name) == ValidPoints(ExtractLandmarkTrajectory(pose, name)) = <<>>

\* C5: in an analysis, a scorer whose raw quantity has no valid sample in the
\* whole Pose Sequence (knee angle, elbow offset, toss wrist, shoulder and
\* hip rotation, the follow-through sub-metrics) returns 5.0 with an
\* 'insufficient data' issue, never a score from a substituted default and
\* never 0 or 10.
C5_NoSampleScoresNeutral ==
    (pc = "motion_analyzed" /\ path = "analyzed"
     /\ "technical_analysis" \in DOMAIN result) =>
        /\ ValidPoints(KneeAngles(pose_results)) = <<>>
              => NeutralWithIssue(scores["knee_movement"])
        /\ (NoSampleOf(pose_results, "right_elbow")
            \/ NoSampleOf(pose_results, "right_shoulder"))
              => NeutralWithIssue(scores["elbow_position"])
        /\ NoSampleOf(pose_results, "left_wrist")
              => NeutralWithIssue(scores["toss_trajectory"])
        /\ ( /\ ValidPoints(Rotations(pose_results, "left_shoulder",
                                      "right_shoulder")) = <<>>
             /\ ValidPoints(Rotations(pose_results, "left_hip", "right_hip")) = <<>> )
              => NeutralWithIssue(scores["body_rotation"])
        /\ NoSampleOf(pose_results, "right_wrist")
              => /\ NeutralSubMetric(scores["follow_through"].swing_completion)
                 /\ NeutralSubMetric(scores["follow_through"].racket_path)
        /\ (NoSampleOf(pose_results, "left_shoulder")
            \/ NoSampleOf(pose_results, "right_shoulder"))
              => NeutralSubMetric(scores["follow_through"].body_rotation_completion)
        /\ (NoSampleOf(pose_results, "left_ankle")
            \/ NoSampleOf(pose_results, "right_ankle"))
              => NeutralSubMetric(scores["follow_through"].balance_maintenance)

\* C6: for a non-empty Pose Sequence with fewer than ten frames that have a
\* pose, analyze_serve_motion returns the six proportional fallback phases
\* and every category score at 5.0 with an 'insufficient data' issue; it
\* neither raises nor returns an error result.
C6_FewPosesStillAnalysed ==
    (pc = "motion_analyzed" /\ pose_results # <<>>
     /\ Len(DetectedFrames(pose_results)) < MinDetectedFrames) =>
        /\ "raised" \notin DOMAIN result
        /\ result.serve_phases = PhaseDict(CreateFallbackPhases(Len(pose_results)))
        /\ \A c \in DOMAIN result.technical_analysis :
              NeutralWithIssue(result.technical_analysis[c])
        /\ path # "insufficient"

AllSixScored(a) ==
    \A k \in 1..Len(Categories) :
        /\ Categories[k] \in DOMAIN a
        /\ "overall_score" \in DOMAIN a[Categories[k]]

\* C9: calculate_overall_score is 0.05 knee + 0.20 elbow + 0.15 toss + 0.30
\* body_rotation + 0.05 timing + 0.25 follow_through; the weights sum to 1 and
\* the result is within [0, 10] for category scores within [0, 10].
C9_WeightedSum ==
    (pc = "overall_scored" /\ AllSixScored(scores)) =>
        /\ result.value =
                5 * scores["knee_movement"].overall_score
              + 20 * scores["elbow_position"].overall_score
              + 15 * scores["toss_trajectory"].overall_score
              + 30 * scores["body_rotation"].overall_score
              + 5 * scores["timing"].overall_score
              + 25 * scores["follow_through"].overall_score
        /\ SumSeq(Weights) = 100
        /\ result.value >= 0
        /\ result.value <= 100 * ScoreMax

\* every category at 10 except body_rotation at 0: the heaviest weight decides
C9_Witness ==
    /\ pc = "overall_scored"
    /\ AllSixScored(scores)
    /\ scores["body_rotation"].overall_score = 0
    /\ \A k \in {1, 2, 3, 5, 6} : scores[Categories[k]].overall_score = ScoreMax
    /\ result.value = 70 * ScoreMax

SkillRank(level) ==
    CASE level = "beginner"     -> 0
      [] level = "intermediate" -> 1
      [] level = "advanced"     -> 2
      [] level = "professional" -> 3

\* C10: determine_skill_level is professional from 8.5, advanced from 7.0,
\* intermediate from 5.5 and beginner below; the tier never drops when the
\* score rises.
C10_SkillThresholds ==
    (pc = "skill_determined" /\ "overall_score" \in DOMAIN scores) =>
        LET s == scores.overall_score[1]
        IN /\ scores.overall_score[2] = 1
           /\ result.value =
                 IF s >= 8500 THEN "professional"
                 ELSE IF s >= 7000 THEN "advanced"
                 ELSE IF s >= 5500 THEN "intermediate"
                 ELSE "beginner"
           /\ s > 0 =>
                 SkillRank(DetermineSkillLevel([overall_score |-> <<s - 1, 1>>]))
                     <= SkillRank(result.value)

\* a score exactly on the top threshold
C10_Witness ==
    /\ pc = "skill_determined"
    /\ "overall_score" \in DOMAIN scores
    /\ scores.overall_score = <<8500, 1>>
    /\ result.value = "professional"


InScoreRange(v) == v >= 0 /\ v <= ScoreMax

\* C11: every Category Score a scorer produces (knee, elbow, toss, body
\* rotation, timing, follow-through), whatever the Pose Sequence and the
\* phase list, has its overall_score within [0, 10].
C11_CategoryScoresInRange ==
    /\ (pc \in {"motion_analyzed", "scored"} /\ scores # <<>>) =>
          \A c \in DOMAIN scores :
              "overall_score" \in DOMAIN scores[c]
                  => InScoreRange(scores[c].overall_score)
    /\ pc = "video_analyzed" =>
          InScoreRange(result.result.follow_through_analysis.overall_score)

\* the scorers have run on a phase list without phases: the elbow is at the
\* top of the scale, the timing at its bottom
C11_Witness ==
    /\ pc = "scored"
    /\ serve_phases = <<>>
    /\ scores["elbow_position"].overall_score = ScoreMax
    /\ scores["timing"].overall_score = 0
    /\ scores["follow_through"].overall_score > 0

\* C12: in every banded penalty table (knee, elbow, shoulder, hip, toss
\* height; current and stricter criteria) exactly one band matches each value
\* of the table's domain (angles 0 to 180, toss heights 0 to 1 inclusive, any
\* elbow offset), so no value falls through to the unpenalized default.
C12_BandsTotalAndDisjoint ==
    pc = "band_scored" =>
        \A k \in 1..Len(result.matched) : Cardinality(result.matched[k]) = 1

\* the frames of the first trophy_position phase in which both the right
\* elbow and the right shoulder were sampled
TrophyFramesSampled ==
    IF \A k \in 1..Len(serve_phases) : serve_phases[k].name # "trophy_position"
    THEN {}
    ELSE LET first == CHOOSE k \in 1..Len(serve_phases) :
                          /\ serve_phases[k].name = "trophy_position"
                          /\ \A j \in 1..(k - 1) :
                                serve_phases[j].name # "trophy_position"
         IN { f \in serve_phases[first].start_frame .. serve_phases[first].end_frame :
                /\ 0 <= f /\ f < Len(pose_results)
                /\ pose_results[f + 1].has_pose
                /\ {"right_elbow", "right_shoulder"}
                       \subseteq DOMAIN pose_results[f + 1].landmarks }

\* the sum over those frames of shoulder y - elbow y, in thousandths
RECURSIVE ElbowAboveShoulderSum(_)
ElbowAboveShoulderSum(frames) ==
    IF frames = {} THEN 0
    ELSE LET f == CHOOSE g \in frames : TRUE
         IN pose_results[f + 1].landmarks["right_shoulder"][2]
            - pose_results[f + 1].landmarks["right_elbow"][2]
            + ElbowAboveShoulderSum(frames \ {f})

ElbowHeightIssues ==
    {"elbow_much_too_low", "elbow_too_low", "elbow_rather_low",
     "elbow_much_too_high", "elbow_too_high", "elbow_rather_high"}

\* C13: in analyze_elbow_position, when the mean elbow-to-shoulder relative
\* height over the trophy-position phase lies in the ideal band 0.00 to 0.03
\* (0.015 for one), height_score is 10.0 and no height issue is reported.
C13_IdealElbowHeight ==
    (/\ pc \in {"scored", "motion_analyzed"}
     /\ scores # <<>>
     /\ "height_score" \in DOMAIN scores["elbow_position"]
     /\ TrophyFramesSampled # {}
     /\ ElbowAboveShoulderSum(TrophyFramesSampled) >= 0
     /\ ElbowAboveShoulderSum(TrophyFramesSampled)
            <= 30 * Cardinality(TrophyFramesSampled)) =>
        /\ scores["elbow_position"].height_score = ScoreMax
        /\ \A k \in 1..Len(scores["elbow_position"].issues) :
              scores["elbow_position"].issues[k] \notin ElbowHeightIssues

\* the elbow alternates between 0.000 and 0.030 above the shoulder: the mean
\* over the trophy position is exactly 0.015
C13_Witness ==
    /\ pc = "scored"
    /\ Cardinality(TrophyFramesSampled) = ScorerFrames
    /\ \E f \in TrophyFramesSampled :
          pose_results[f + 1].landmarks["right_elbow"][2] = 300
    /\ 2 * ElbowAboveShoulderSum(TrophyFramesSampled)
          = 30 * Cardinality(TrophyFramesSampled)
    /\ scores["elbow_position"].height_score = ScoreMax
    /\ scores["elbow_position"].issues = <<>>

\* the frames with a pose and both shoulders sampled
ShoulderFrames ==
    { j \in 1..Len(pose_results) :
        /\ pose_results[j].has_pose
        /\ {"left_shoulder", "right_shoulder"} \subseteq DOMAIN pose_results[j].landmarks }

\* the shoulder line of frame j is tilted by less than 75 degrees:
\* |dy| < tan(75) * dx, with 3.73205 < tan(75)
TiltBelow75(j) ==
    LET dx == pose_results[j].landmarks["right_shoulder"][1]
              - pose_results[j].landmarks["left_shoulder"][1]
        dy == pose_results[j].landmarks["right_shoulder"][2]
              - pose_results[j].landmarks["left_shoulder"][2]
    IN dx > 0 /\ Abs(dy) * 100000 < 373205 * dx

\* C14: in analyze_body_rotation, when the largest shoulder-line tilt of the
\* sequence is in the lowest band (below 75 degrees, 60 for one),
\* shoulder_score is exactly 4.0 and the 'large deficit' shoulder issue is
\* reported, whatever the hip measurement.
C14_ShoulderLargeDeficit ==
    (/\ pc \in {"scored", "motion_analyzed"}
     /\ scores # <<>>
     /\ "shoulder_score" \in DOMAIN scores["body_rotation"]
     /\ ShoulderFrames # {}
     /\ \A j \in ShoulderFrames : TiltBelow75(j)) =>
        /\ scores["body_rotation"].shoulder_score = 4000
        /\ \E k \in 1..Len(scores["body_rotation"].issues) :
              scores["body_rotation"].issues[k] = "shoulder_rotation_much_too_small"

\* the shoulder line stays at 60 degrees (dx 0.5, dy 0.866) while the hip line
\* is in its ideal band
C14_Witness ==
    /\ pc = "scored"
    /\ ShoulderFrames = 1..ScorerFrames
    /\ \A j \in ShoulderFrames :
          /\ pose_results[j].landmarks["left_shoulder"] = <<0, -566>>
          /\ TiltBelow75(j)
    /\ scores["body_rotation"].shoulder_score = 4000
    /\ scores["body_rotation"].hip_score = ScoreMax
    /\ scores["body_rotation"].issues = <<"shoulder_rotation_much_too_small">>

\* C15: two runs of the pipeline on the same Pose Sequence return the same
\* Analysis Result, the analysis identifier included, on the normal path and
\* on the fewer-than-ten-poses path: whatever the clock read in this run, the
\* result is the one of a run that read 0.
C15_RunsAgree ==
    /\ pc = "motion_analyzed" => result = AnalyzeServeMotion(pose_results, 0)
    /\ pc = "video_analyzed" =>
          \A tie_up \in BOOLEAN :
              RoundToHundredths(result.result.overall_score, tie_up)
                  = RoundToHundredths(result.result.overall_score, ~tie_up)
              => result = AnalyzeVideo(pose_results, tie_up)

\* the squared length of the ray from b to a, in squared units of 1e-7
RaySq(a, b) == (a[1] - b[1]) * (a[1] - b[1]) + (a[2] - b[2]) * (a[2] - b[2])

\* C16: _calculate_joint_angle(a, b, c) is undefined exactly when a, b or c
\* is a hole or one of the rays b->a, b->c is shorter than 1e-6; otherwise it
\* is an angle within [0, 180], the same when a and c are swapped, 180 for
\* collinear opposite rays and 0 for coincident rays.
C16_JointAngle ==
    pc = "joint_angle" =>
        LET a == trajectory[1]
            b == trajectory[2]
            c == trajectory[3]
            hole  == a = None \/ b = None \/ c = None
            short == ~hole /\ (RaySq(a, b) < 100 \/ RaySq(c, b) < 100)
            cross == (a[1] - b[1]) * (c[2] - b[2]) - (a[2] - b[2]) * (c[1] - b[1])
            dot   == (a[1] - b[1]) * (c[1] - b[1]) + (a[2] - b[2]) * (c[2] - b[2])
            angle == result.value
        IN /\ (angle = None) <=> (hole \/ short)
           /\ angle # None =>
                 /\ Degrees(angle) \in 0..180
                 /\ angle[1] * angle[1] <= angle[2]
                 /\ angle = CalculateJointAngleIn(MinNormSqFine, c, b, a)
                 /\ (cross = 0 /\ dot < 0) => Degrees(angle) = 180
                 /\ (cross = 0 /\ dot > 0) =>
                       (Degrees(angle) = 0 /\ AngleAtMost(angle, 0))
                 /\ cross # 0 => (AngleLess(angle, 180) /\ AngleGreater(angle, 0))

\* a defined straight angle: rays of 1.4e-6 in opposite directions
C16_Witness ==
    /\ pc = "joint_angle"
    /\ trajectory = << <<0, 0>>, <<10, 10>>, <<20, 20>> >>
    /\ result.value # None
    /\ Degrees(result.value) = 180

\* C17: the phase mapping of analyze_motion's result has one entry for each
\* of the six Serve Phases, with a score within [0, 10] and a frame_count
\* equal to the number of frames of the phase, also when a phase has no
\* frame; it is never partial or empty.
C17_PhaseMappingComplete ==
    pc = "video_analyzed" =>
        LET phase_analysis == result.result.phase_analysis
        IN /\ DOMAIN phase_analysis = { PhaseNames[k] : k \in 1..Len(PhaseNames) }
           /\ \A k \in 1..Len(serve_phases) :
                 LET entry == phase_analysis[serve_phases[k].name]
                 IN /\ InScoreRange(entry.score)
                    /\ entry.frame_count
                          = Cardinality({ f \in serve_phases[k].start_frame
                                               .. (serve_phases[k].end_frame - 1) :
                                            f < Len(pose_results) })

\* C18: two analyses interleaved in any order on the same MotionAnalyzer and
\* the same Pose Sequence each return what the analysis run on its own
\* returns, and the analyzer's instance state stays as constructed; no step
\* of either run changes the Pose Sequence or the instance state.
SharedStateKept ==
    [][pc = "concurrent" => /\ pose_results' = pose_results
                            /\ analyzer' = analyzer]_vars

RunsMatchSequential ==
    pc = "concurrent" =>
        /\ analyzer = [serve_phases |-> PhaseNames]
        /\ \A r \in RunIds :
              runs[r].stage = "returned" =>
                  runs[r].result = AnalyzeServeMotion(pose_results, runs[r].clock)

VideoBeingBuilt ==
    \/ pc = "reading"
    \/ pc = "video_processed" /\ "raised" \notin DOMAIN result

SampledFrames(frames_read, skip_frames) ==
    { f \in 0..(frames_read - 1) : f % skip_frames = 0 }

TimestampLeq(a, b) == a[1] * b[2] <= b[1] * a[2]

C19_PoseSequenceOrdered ==
    VideoBeingBuilt =>
        /\ \A i \in 1..(Len(pose_results) - 1) :
              /\ pose_results[i].frame_number < pose_results[i + 1].frame_number
              /\ TimestampLeq(pose_results[i].timestamp,
                              pose_results[i + 1].timestamp)
        /\ Len(pose_results) =
              Cardinality(SampledFrames(capture.frame_number, capture.skip_frames))
        /\ { pose_results[i].frame_number : i \in 1..Len(pose_results) } =
              SampledFrames(capture.frame_number, capture.skip_frames)
        /\ pc = "video_processed" =>
              /\ capture.frame_number = capture.frames
              /\ result.value = pose_results

C19_Witness ==
    /\ pc = "video_processed"
    /\ "raised" \notin DOMAIN result
    /\ capture.skip_frames > 1
    /\ Len(pose_results) >= 3
    /\ \E i \in 1..Len(pose_results) : pose_results[i].has_pose
    /\ \E i \in 1..Len(pose_results) : ~pose_results[i].has_pose

\* C20: on the primary path of identify_serve_phases the toss apex and the
\* contact frame are the Pose Sequence positions of the frames where the left
\* and the right wrist's y is minimal, and the phases returned are cut at
\* max(1, apex-20), apex+5, contact-10, contact+2 and contact+5.
SampledPositions(pose, name) ==
    { i \in 1..Len(pose) : TrajectoryEntry(pose[i], name) # <<>> }

PosePositionOfMinY(pose, name) ==
    LET at == SampledPositions(pose, name)
        y(i) == TrajectoryEntry(pose[i], name)[2]
    IN (CHOOSE i \in at :
           /\ \A j \in at : y(i) <= y(j)
           /\ \A j \in at : j < i => y(j) # y(i)) - 1

C20_AnchorsArePosePositions ==
    (pc = "identified" /\ path = "primary") =>
        serve_phases =
            PrimaryPhases(PosePositionOfMinY(pose_results, "left_wrist"),
                          PosePositionOfMinY(pose_results, "right_wrist"),
                          Len(pose_results))

\* C21: for a Pose Sequence whose wrist samples all carry x and y,
\* identify_serve_phases takes the primary path exactly when the left-wrist
\* and the right-wrist Trajectory both hold at least 10 non-hole samples, and
\* returns the fallback segmentation otherwise.
NonHoleCount(pose, name) == Cardinality(SampledPositions(pose, name))

WristSamplesComplete(pose) ==
    \A name \in {"left_wrist", "right_wrist"} :
        \A i \in SampledPositions(pose, name) :
            Len(TrajectoryEntry(pose[i], name)) = 2

C21_PrimaryIffTenSamples ==
    (pc = "identified" /\ WristSamplesComplete(pose_results)) =>
        /\ path = "primary" <=>
              /\ NonHoleCount(pose_results, "left_wrist") >= 10
              /\ NonHoleCount(pose_results, "right_wrist") >= 10
        /\ path # "primary" =>
              serve_phases = CreateFallbackPhases(Len(pose_results))

C21_Witness ==
    /\ pc = "identified"
    /\ WristSamplesComplete(pose_results)
    /\ path = "primary"
    /\ NonHoleCount(pose_results, "left_wrist") = 10
    /\ NonHoleCount(pose_results, "right_wrist") = 10

\* C22: end_frame means the same everywhere: for the phases any of the three
\* producers (primary path, fallback, request handler) returns, the
\* detection-rate analysis and the elbow, toss and follow-through scorers
\* read the same frame indices of a phase, and no scorer reads a frame of
\* the neighbouring phase.
PhasesProduced ==
    /\ pc \in {"identified", "fallback_created", "video_analyzed"}
    /\ Len(serve_phases) = 6

C22_EndFrameOneMeaning ==
    PhasesProduced =>
        LET n == total_frames
        IN /\ \A k \in 1..6 :
                 /\ ElbowFrames(serve_phases[k], n)
                        = DetectionRateFrames(serve_phases[k], n)
                 /\ TossFrames(serve_phases[k], n)
                        = DetectionRateFrames(serve_phases[k], n)
                 /\ FollowThroughFrames(serve_phases[k], n)
                        = DetectionRateFrames(serve_phases[k], n)
           /\ ElbowFrames(serve_phases[3], n)
                 \cap DetectionRateFrames(serve_phases[2], n) = {}
           /\ ElbowFrames(serve_phases[3], n)
                 \cap DetectionRateFrames(serve_phases[4], n) = {}
           /\ TossFrames(serve_phases[2], n)
                 \cap DetectionRateFrames(serve_phases[3], n) = {}
           /\ FollowThroughFrames(serve_phases[6], n)
                 \cap DetectionRateFrames(serve_phases[5], n) = {}

\* C23: the smoothness penalty of analyze_toss_trajectory (1.0 below 0.7,
\* 2.5 below 0.6, 4.0 below 0.5) is subtracted in the toss overall_score: a
\* second toss with the same height and distance scores whose smoothness
\* lies in another penalty band scores lower or higher by exactly the
\* difference of the two penalties.
SmoothnessDomain == { 50 * k : k \in 0..20 }

TossScored ==
    /\ pc \in {"scored", "motion_analyzed"}
    /\ "toss_trajectory" \in DOMAIN scores
    /\ "height_score" \in DOMAIN scores.toss_trajectory

C23_SmoothnessPenaltySubtracted ==
    TossScored =>
        LET toss == scores.toss_trajectory
            penalty == TossConsistencyBand(toss.consistency_score)[1]
        IN \A other \in SmoothnessDomain :
              LET other_penalty == TossConsistencyBand(other)[1]
              IN other_penalty # penalty =>
                    toss.overall_score
                        - TossOverallScore(toss.height_score,
                                           toss.distance_score, other)
                      = other_penalty - penalty

\* C24: analyze_timing scores a phase 10.0 when its share of the clip is
\* within 0.03 of the ideal share, 8.5 within 0.06, 7.0 within 0.10, 5.5
\* within 0.15, 4.0 within 0.20 and 2.0 otherwise, the ideal shares being
\* 0.15, 0.20, 0.25, 0.15, 0.05, 0.20; the timing score is the mean of the six
\* phase scores, and it is 10.0 for the fallback segmentation of a clip whose
\* length makes every share exact.
TimingBands == << <<3, 10000>>, <<6, 8500>>, <<10, 7000>>, <<15, 5500>>,
                  <<20, 4000>> >>

\* |duration / n - ideal / 100| < limit / 100, all in whole numbers
ShareWithin(duration, n, ideal, limit) ==
    IF n > 0 THEN Abs(100 * duration - ideal * n) < limit * n
    ELSE ideal < limit

ExpectedPhaseScore(duration, n, ideal) ==
    LET hit == { b \in 1..Len(TimingBands) :
                   ShareWithin(duration, n, ideal, TimingBands[b][1]) }
    IN IF hit = {} THEN 2000
       ELSE TimingBands[CHOOSE b \in hit : \A c \in hit : b <= c][2]

SharesExact(n) == n > 0 /\ \A k \in 1..6 : (n * PhaseLengths[k]) % 100 = 0

C24_TimingBandsAndMean ==
    pc = "timing_scored" =>
        LET timing == scores.timing
            total == SumSeq([k \in 1..6 |-> timing.phase_scores[PhaseNames[k]]])
        IN /\ \A k \in 1..6 :
                 timing.phase_scores[serve_phases[k].name]
                   = ExpectedPhaseScore(serve_phases[k].duration, total_frames,
                                        PhaseLengths[k])
           /\ 6 * timing.overall_score <= total
           /\ total < 6 * (timing.overall_score + 1)
           /\ (SharesExact(total_frames)
               /\ serve_phases = CreateFallbackPhases(total_frames))
                 => timing.overall_score = 10000

C24_Witness ==
    /\ pc = "timing_scored"
    /\ SharesExact(total_frames)
    /\ serve_phases = CreateFallbackPhases(total_frames)
    /\ scores.timing.overall_score = 10000

\* C25: in analyze_knee_movement a frame whose knee angle is undefined (no
\* pose, a missing landmark, a ray of length 0) is left out of the minimum:
\* max_bend_angle is the smallest of the defined angles, max_bend_frame is
\* the Pose Sequence position of the first frame that has it, and the knee
\* category is produced whatever the frames are.
KneeDefinedAt(pose) ==
    { i \in 1..Len(pose) :
        /\ pose[i].has_pose
        /\ \A k \in {"right_hip", "right_knee", "right_ankle"} :
              k \in DOMAIN pose[i].landmarks
        /\ RaySq(pose[i].landmarks["right_hip"],
                 pose[i].landmarks["right_knee"]) > 0
        /\ RaySq(pose[i].landmarks["right_ankle"],
                 pose[i].landmarks["right_knee"]) > 0 }

KneeAngleAt(pose, i) ==
    CalculateJointAngle(pose[i].landmarks["right_hip"],
                        pose[i].landmarks["right_knee"],
                        pose[i].landmarks["right_ankle"])

C25_UndefinedAnglesExcluded ==
    pc = "knee_scored" =>
        LET knee == scores.knee_movement
            defined == KneeDefinedAt(pose_results)
            at == knee.max_bend_frame + 1
        IN /\ "overall_score" \in DOMAIN knee
           /\ InScoreRange(knee.overall_score)
           /\ defined # {} =>
                 /\ at \in defined
                 /\ knee.max_bend_angle = KneeAngleAt(pose_results, at)
                 /\ \A j \in defined :
                       /\ ~AngleBelow(KneeAngleAt(pose_results, j),
                                      knee.max_bend_angle)
                       /\ j < at => AngleBelow(knee.max_bend_angle,
                                               KneeAngleAt(pose_results, j))

C25_Witness ==
    /\ pc = "knee_scored"
    /\ Len(pose_results) = MaxKneeFrames
    /\ ~pose_results[1].has_pose
    /\ 2 \notin KneeDefinedAt(pose_results)
    /\ pose_results[2].has_pose
    /\ scores.knee_movement.max_bend_frame = 3
    /\ 3 \in KneeDefinedAt(pose_results)

\* C26: each trajectory-smoothness computation of the scorers drops the
\* holes, returns 0.0 when fewer than three valid points remain, 1.0 when no
\* step has any length, and otherwise max(0, 1 - std/mean) of the step
\* lengths; the value lies within [0, 1].
StepsAllZero(points) ==
    \A i \in 1..(Len(points) - 1) : points[i + 1] = points[i]

CoVSmoothness(points) ==
    IF Len(points) < 3 THEN 0
    ELSE IF StepsAllZero(points) THEN 1000
    ELSE Max2(0, 1000 - CoefficientOfVariation(Velocities(points)))

C26_SmoothnessIsCoV ==
    pc = "smoothness" =>
        LET expected == CoVSmoothness(ValidPoints(trajectory))
        IN /\ result.trajectory_smoothness = expected
           /\ result.path_smoothness = expected
           /\ result.trajectory_smoothness \in 0..1000
           /\ result.path_smoothness \in 0..1000

\* C27: on the primary path of identify_serve_phases every returned phase
\* has 0 <= start_frame <= end_frame <= total_frames - 1 and a non-negative
\* duration, and the phases are contiguous from frame 0 to total_frames - 1.
C27_PrimaryPhasesWellFormed ==
    (pc = "identified" /\ path = "primary") =>
        /\ \A k \in 1..Len(serve_phases) :
              /\ 0 <= serve_phases[k].start_frame
              /\ serve_phases[k].start_frame <= serve_phases[k].end_frame
              /\ serve_phases[k].end_frame <= total_frames - 1
              /\ serve_phases[k].duration >= 0
        /\ serve_phases[1].start_frame = 0
        /\ \A k \in 2..Len(serve_phases) :
              serve_phases[k].start_frame = serve_phases[k - 1].end_frame
        /\ serve_phases[Len(serve_phases)].end_frame = total_frames - 1

\* C28: for a non-empty Pose Sequence of N frames the six phases the request
\* handler builds cover every frame index 0..N-1 exactly once, and the
\* frame_count values of the phase analysis sum to N.
FrameCountTotal(phase_analysis) ==
    SumSeq([k \in 1..Len(PhaseNames) |->
               IF PhaseNames[k] \in DOMAIN phase_analysis
               THEN phase_analysis[PhaseNames[k]].frame_count ELSE 0])

C28_HandlerPhasesCoverClip ==
    (pc = "video_analyzed" /\ total_frames > 0) =>
        /\ \A f \in 0..(total_frames - 1) :
              Cardinality({ k \in 1..Len(serve_phases) :
                              f \in DetectionRateFrames(serve_phases[k],
                                                        total_frames) }) = 1
        /\ FrameCountTotal(result.result.phase_analysis) = total_frames

\* C29: in the result of calculate_tiered_overall_score the skill_level is
\* the tier of the reported total_score (>= 8.5 professional, >= 7.0
\* advanced, >= 5.5 intermediate, else beginner), and total_score lies
\* inside the score_range skill_criteria configures for that tier.
TierOf(total_score) ==
    IF total_score >= 8500 THEN "professional"
    ELSE IF total_score >= 7000 THEN "advanced"
    ELSE IF total_score >= 5500 THEN "intermediate"
    ELSE "beginner"

C29_TierMatchesReportedScore ==
    pc = "tiered" =>
        LET tiered == result.value
            range == SkillCriteriaScoreRange(tiered.skill_level)
        IN /\ tiered.skill_level = TierOf(tiered.total_score)
           /\ range[1] <= tiered.total_score
           /\ tiered.total_score <= range[2]

\* C30: _calculate_overall_score of the request pipeline is a convex
\* combination on the 0-10 scale of the mean phase score (0.6), the
\* follow-through score (0.3) and the detection term (0.1): it lies within
\* [0, 10] and is 10.0 when every phase score and the follow-through score
\* are 10.0 and the detection rate is 1.
AllInputsTop ==
    /\ pc = "motion_overall"
    /\ scores.phase_analysis # <<>>
    /\ \A name \in DOMAIN scores.phase_analysis :
          scores.phase_analysis[name].score = ScoreMax
    /\ "overall_score" \in DOMAIN scores.follow_through_analysis
    /\ scores.follow_through_analysis.overall_score = ScoreMax
    /\ scores.basic_metrics.detection_rate = <<1, 1>>

C30_ConvexCombination ==
    pc = "motion_overall" =>
        /\ result.value[2] > 0
        /\ 0 <= result.value[1]
        /\ result.value[1] <= ScoreMax * result.value[2]
        /\ AllInputsTop => result.value[1] = ScoreMax * result.value[2]
=============================================================================
